---------------------------- MODULE Spec2Model ----------------------------
(***************************************************************************)
(* A model of the JuiceFS operation-log analyzer                           *)
(* (src/src/loganalysis/log_analyzer.py).                                  *)
(*                                                                         *)
(* Text is modelled as a sequence of one-character strings, so that the    *)
(* regular expressions, strip(), split(), int() and float() of the parser  *)
(* are computed character by character as the code computes them.          *)
(* Python values that may be of several types (an int, a str, None) are    *)
(* tagged records: [t |-> "int", v |-> 7], [t |-> "str", v |-> <<"a">>],   *)
(* [t |-> "none"].  An exception is a value of the state, never an error   *)
(* of the model.                                                           *)
(*                                                                         *)
(* Six specifications share the variables; each holds the variables it     *)
(* does not use at their idle values:                                      *)
(*   SpecParse   parse_log_line on one line                                *)
(*   SpecAccess  analyze_access_pattern on record lists and reorderings    *)
(*   SpecIo      the counting loop of analyze_io_behavior                  *)
(*   SpecLog     analyze_log on a file of a few lines                      *)
(*   SpecStamp   records with differing timestamps and their analysis      *)
(*   SpecPasses  the loop and the two passes of analyze_log in any order   *)
(***************************************************************************)
EXTENDS Integers, Sequences, FiniteSets, TLC

VARIABLES
    line,               \* parse_log_line: the argument `line`
    parsed,             \* parse_log_line: its outcome (record, None, raise)
    operations,         \* analyze_log / analyze_access_pattern: the record list
    access_analysis,    \* the result of analyze_access_pattern
    io_analysis,        \* the result of analyze_io_behavior
    pc,                 \* analyze_log: position in the function
    read_sizes,         \* analyze_log: read_sizes
    write_sizes,        \* analyze_log: write_sizes
    read_size_buckets,  \* analyze_log: read_size_buckets, items in insertion order
    write_size_buckets, \* analyze_log: write_size_buckets, items in insertion order
    output,             \* analyze_log: the rows printed so far
    error,              \* analyze_log: the exception that ended the run
    file,               \* analyze_log: the lines of the file at file_path
    lineno,             \* analyze_log: how many lines the loop has read
    handle_usage,       \* analyze_io_behavior: handle_usage
    inode_operations,   \* analyze_io_behavior: inode_operations
    processed,          \* analyze_io_behavior: the records the loop has seen
    baseline            \* the result of analyze_access_pattern before a reordering

parseVars == <<line, parsed>>
accessVars == <<operations, access_analysis, baseline>>
logVars == <<io_analysis, pc, read_sizes, write_sizes, read_size_buckets,
             write_size_buckets, output, error, file, lineno>>
ioVars == <<handle_usage, inode_operations, processed>>
vars == <<line, parsed, operations, access_analysis, io_analysis, pc,
          read_sizes, write_sizes, read_size_buckets, write_size_buckets,
          output, error, file, lineno, handle_usage, inode_operations,
          processed, baseline>>

(***************************************************************************)
(* Python values.                                                          *)
(***************************************************************************)
None == [t |-> "none"]
PyInt(n) == [t |-> "int", v |-> n]
PyStr(s) == [t |-> "str", v |-> s]

\* Python truth value of an int, a str or None (bool(x)).
Truthy(x) ==
    CASE x.t = "none" -> FALSE
      [] x.t = "int"  -> x.v # 0
      [] x.t = "str"  -> x.v # <<>>

(***************************************************************************)
(* Characters.                                                             *)
(***************************************************************************)
Digit == {"0", "1", "2", "3", "4", "5", "6", "7", "8", "9"}
Letter == {"a", "b", "c", "d", "e", "f", "g", "h", "i", "j", "k", "l", "m",
           "n", "o", "p", "q", "r", "s", "t", "u", "v", "w", "x", "y", "z",
           "A", "B", "C", "D", "E", "F", "G", "H", "I", "J", "K", "L", "M",
           "N", "O", "P", "Q", "R", "S", "T", "U", "V", "W", "X", "Y", "Z"}
\* \w of the re module
WordChar == Digit \cup Letter \cup {"_"}
\* what str.strip() removes
Whitespace == {" ", "\t", "\n", "\r"}
\* [\d.] of the duration group
DurationChar == Digit \cup {"."}

DigitValue(c) ==
    CASE c = "0" -> 0 [] c = "1" -> 1 [] c = "2" -> 2 [] c = "3" -> 3
      [] c = "4" -> 4 [] c = "5" -> 5 [] c = "6" -> 6 [] c = "7" -> 7
      [] c = "8" -> 8 [] c = "9" -> 9

(***************************************************************************)
(* String helpers of the Python runtime the parser calls.                  *)
(***************************************************************************)
RECURSIVE LStrip(_)
LStrip(s) ==
    IF s # <<>> /\ Head(s) \in Whitespace THEN LStrip(Tail(s)) ELSE s

RECURSIVE RStrip(_)
RStrip(s) ==
    IF s # <<>> /\ s[Len(s)] \in Whitespace
    THEN RStrip(SubSeq(s, 1, Len(s) - 1))
    ELSE s

\* str.strip(): whitespace is removed at BOTH ends
strip(s) == RStrip(LStrip(s))

\* str.split(','): the pieces between commas, at least one piece
RECURSIVE SplitFrom(_, _, _)
SplitFrom(s, i, start) ==
    IF i > Len(s) THEN <<SubSeq(s, start, Len(s))>>
    ELSE IF s[i] = ","
         THEN <<SubSeq(s, start, i - 1)>> \o SplitFrom(s, i + 1, i + 1)
         ELSE SplitFrom(s, i + 1, start)

split(s) == SplitFrom(s, 1, 1)

\* str.isdigit(): non-empty and every character a digit
isdigit(s) == s # <<>> /\ \A i \in 1..Len(s) : s[i] \in Digit

\* The value of a run of digits and underscores (underscores are skipped).
RECURSIVE DigitsValue(_, _)
DigitsValue(s, acc) ==
    IF s = <<>> THEN acc
    ELSE IF Head(s) = "_" THEN DigitsValue(Tail(s), acc)
    ELSE DigitsValue(Tail(s), 10 * acc + DigitValue(Head(s)))

\* The literals int() accepts: optional sign, digits, single underscores
\* between digits; whitespace around the literal is ignored.
IntBody(s) ==
    IF s # <<>> /\ Head(s) \in {"+", "-"} THEN Tail(s) ELSE s

IntLiteralOk(s0) ==
    LET s == IntBody(strip(s0)) IN
        /\ s # <<>>
        /\ \A i \in 1..Len(s) : s[i] \in Digit \cup {"_"}
        /\ s[1] \in Digit
        /\ s[Len(s)] \in Digit
        /\ \A i \in 1..(Len(s) - 1) : ~(s[i] = "_" /\ s[i + 1] = "_")

\* int(s) of a literal int() accepts
IntValue(s0) ==
    LET t == strip(s0)
        v == DigitsValue(IntBody(t), 0)
    IN  IF t # <<>> /\ Head(t) = "-" THEN 0 - v ELSE v

\* float() on a string of digits and dots: at most one dot, at least one digit
CountChar(s, c) == Cardinality({i \in 1..Len(s) : s[i] = c})

FloatLiteralOk(s) ==
    /\ CountChar(s, ".") <= 1
    /\ \E i \in 1..Len(s) : s[i] \in Digit

RECURSIVE DropTrailingZeros(_)
DropTrailingZeros(s) ==
    IF s # <<>> /\ s[Len(s)] = "0"
    THEN DropTrailingZeros(SubSeq(s, 1, Len(s) - 1))
    ELSE s

\* Position of the first c in s, 0 if there is none.
IndexOf(s, c) ==
    IF \E i \in 1..Len(s) : s[i] = c
    THEN CHOOSE i \in 1..Len(s) : s[i] = c /\ \A j \in 1..(i - 1) : s[j] # c
    ELSE 0

\* float(s) of a decimal literal: the integer part and the significant
\* fraction digits ("0.10" and "0.1" are the same number).
FloatValue(s) ==
    LET d == IndexOf(s, ".")
        ip == IF d = 0 THEN s ELSE SubSeq(s, 1, d - 1)
        fp == IF d = 0 THEN <<>> ELSE SubSeq(s, d + 1, Len(s))
    IN  [t |-> "float", ip |-> DigitsValue(ip, 0), fp |-> DropTrailingZeros(fp)]

(***************************************************************************)
(* Python floats: IEEE-754 binary64, round to nearest, ties to even.       *)
(* A positive float is [m |-> its 53 significand bits, the most            *)
(* significant first and equal to 1, e |-> the exponent of the last bit]:  *)
(* its value is m * 2^e.  Only the non-negative floats are needed.         *)
(***************************************************************************)
MantissaBits == 53

FZero == [m |-> <<>>, e |-> 0]

Zeros(n) == [i \in 1..n |-> 0]

\* The binary digits of a natural number, most significant first.
RECURSIVE BitsOfNat(_)
BitsOfNat(n) == IF n = 0 THEN <<>> ELSE BitsOfNat(n \div 2) \o <<n % 2>>

\* A binary number without its leading zeros.
StripZeros(b) ==
    IF \E i \in 1..Len(b) : b[i] = 1
    THEN SubSeq(b, CHOOSE i \in 1..Len(b) :
                       b[i] = 1 /\ \A j \in 1..(i - 1) : b[j] = 0, Len(b))
    ELSE <<>>

PadLeft(b, n) == Zeros(n - Len(b)) \o b

\* The carry into bit i of a + b (both of length n): some less significant
\* bit generates a carry and every bit between propagates it.
CarryInto(a, b, i) ==
    \E j \in (i + 1)..Len(a) :
        /\ a[j] + b[j] = 2
        /\ \A k \in (i + 1)..(j - 1) : a[k] + b[k] = 1

\* The exact sum of two binary numbers.
AddBits(a0, b0) ==
    LET n == 1 + (IF Len(a0) > Len(b0) THEN Len(a0) ELSE Len(b0))
        a == PadLeft(a0, n)
        b == PadLeft(b0, n)
    IN  [i \in 1..n |-> (a[i] + b[i] + (IF CarryInto(a, b, i) THEN 1 ELSE 0)) % 2]

\* The exact product of a binary number and a natural number.
RECURSIVE BitsTimes(_, _)
BitsTimes(b, n) ==
    IF n = 0 THEN <<>>
    ELSE LET half == BitsTimes(b, n \div 2) \o <<0>>
         IN  IF n % 2 = 1 THEN AddBits(half, b) ELSE half

\* The float nearest to bits * 2^e (ties to even).
Round53(bits, e) ==
    LET b == StripZeros(bits)
        L == Len(b)
    IN  IF L = 0 THEN FZero
        ELSE IF L <= MantissaBits
        THEN [m |-> b \o Zeros(MantissaBits - L), e |-> e - (MantissaBits - L)]
        ELSE LET keep == SubSeq(b, 1, MantissaBits)
                 guard == b[MantissaBits + 1]
                 sticky == \E i \in (MantissaBits + 2)..L : b[i] = 1
                 up == guard = 1 /\ (sticky \/ keep[MantissaBits] = 1)
                 r == StripZeros(IF up THEN AddBits(keep, <<1>>) ELSE keep)
             IN  IF Len(r) > MantissaBits
                 THEN [m |-> SubSeq(r, 1, MantissaBits),
                       e |-> e + (L - MantissaBits) + 1]
                 ELSE [m |-> r, e |-> e + (L - MantissaBits)]

\* float(n) of a natural number
FromInt(n) == Round53(BitsOfNat(n), 0)

\* 2^n mod t
RECURSIVE Pow2Mod(_, _)
Pow2Mod(n, t) ==
    IF n = 0 THEN 1 % t
    ELSE LET h == Pow2Mod(n \div 2, t)
         IN  (h * h * (IF n % 2 = 1 THEN 2 ELSE 1)) % t

\* The fraction bits of r/t (r < t) as long division gives them: bit i is
\* the quotient of twice the remainder left after i-1 bits; k bits, then one
\* more bit that is 1 iff the division left a remainder.
FractionBits(r, t, k) ==
    [i \in 1..(k + 1) |->
        IF i <= k THEN (2 * ((r * Pow2Mod(i - 1, t)) % t)) \div t
        ELSE IF (r * Pow2Mod(k, t)) % t # 0 THEN 1 ELSE 0]

\* More fraction bits than any quotient of two counts below 512 needs.
DivisionBits == 64

\* s / t of two ints (true division: the float nearest to the quotient)
FDivInt(s, t) ==
    Round53(BitsOfNat(s \div t) \o FractionBits(s % t, t, DivisionBits),
            0 - (DivisionBits + 1))

\* x * n of a float and an int (the int is converted exactly)
FMulInt(x, n) == IF x = FZero THEN FZero ELSE Round53(BitsTimes(x.m, n), x.e)

\* x + y
FAdd(x, y) ==
    IF x = FZero THEN y
    ELSE IF y = FZero THEN x
    ELSE LET lo == IF x.e < y.e THEN x.e ELSE y.e
         IN  Round53(AddBits(x.m \o Zeros(x.e - lo), y.m \o Zeros(y.e - lo)), lo)

\* b < c for two binary numbers of the same length
BitsLess(b, c) ==
    \E i \in 1..Len(b) :
        /\ b[i] < c[i]
        /\ \A j \in 1..(i - 1) : b[j] = c[j]

\* x < y
FLess(x, y) ==
    IF y = FZero THEN FALSE
    ELSE IF x = FZero THEN TRUE
    ELSE x.e < y.e \/ (x.e = y.e /\ BitsLess(x.m, y.m))

(***************************************************************************)
(* The regular expression of parse_log_line, matched by re.match: anchored *)
(* at the first character, NOT anchored at the end.  A position is an      *)
(* index into the string; 0 is "no match".                                 *)
(***************************************************************************)
\* After the literal lit at position i, or 0.
Lit(s, i, lit) ==
    IF i = 0 THEN 0
    ELSE IF i + Len(lit) - 1 <= Len(s) /\ SubSeq(s, i, i + Len(lit) - 1) = lit
         THEN i + Len(lit)
         ELSE 0

\* After the longest run of characters of class C starting at i (i itself when
\* the run is empty).
RECURSIVE RunEnd(_, _, _)
RunEnd(s, i, C) ==
    IF i <= Len(s) /\ s[i] \in C THEN RunEnd(s, i + 1, C) ELSE i

\* C+ : a non-empty greedy run.  Every run of the pattern is followed by a
\* character outside its class, so the greedy match is the only match.
Plus(s, i, C) ==
    IF i = 0 THEN 0
    ELSE LET j == RunEnd(s, i, C) IN IF j > i THEN j ELSE 0

\* \d{n}
DigitsN(s, i, n) ==
    IF i = 0 THEN 0
    ELSE IF i + n - 1 <= Len(s) /\ \A k \in i..(i + n - 1) : s[k] \in Digit
         THEN i + n
         ELSE 0

\* \d{4}\.\d{2}\.\d{2} \d{2}:\d{2}:\d{2}\.\d+
TimestampEnd(s, i) ==
    LET p1 == Lit(s, DigitsN(s, i, 4), <<".">>)
        p2 == Lit(s, DigitsN(s, p1, 2), <<".">>)
        p3 == Lit(s, DigitsN(s, p2, 2), <<" ">>)
        p4 == Lit(s, DigitsN(s, p3, 2), <<":">>)
        p5 == Lit(s, DigitsN(s, p4, 2), <<":">>)
        p6 == Lit(s, DigitsN(s, p5, 2), <<".">>)
    IN  Plus(s, p6, Digit)

\* " <([\d.]+)>" at position i: the position after ">", or 0.
DurationEnd(s, i) ==
    Lit(s, Plus(s, Lit(s, i, <<" ", "<">>), DurationChar), <<">">>)

\* (.*?) <([\d.]+)> from position i: the FIRST position k >= i where the
\* duration marker matches, with no newline skipped on the way; 0 if none.
RECURSIVE LazyDuration(_, _)
LazyDuration(s, k) ==
    IF k > Len(s) THEN 0
    ELSE IF DurationEnd(s, k) # 0 THEN k
    ELSE IF s[k] = "\n" THEN 0
    ELSE LazyDuration(s, k + 1)

NoMatch == [matched |-> FALSE]

\* ([^)]+) from position a0: the position of the first ")" when at least one
\* character stands before it, or 0 ([^)] matches a newline too).
ArgsEnd(s, a0) ==
    IF a0 = 0 THEN 0
    ELSE IF IndexOf(SubSeq(s, a0, Len(s)), ")") > 1
         THEN a0 + IndexOf(SubSeq(s, a0, Len(s)), ")") - 1
         ELSE 0

\* The start of the duration marker after the text of group 7, or 0.
DebugEnd(s, r0) == IF r0 = 0 THEN 0 ELSE LazyDuration(s, r0)

\* The groups of a match whose parts end at the given positions.
Groups(s, t0, u0, u1, g0, g1, p0, p1, o0, o1, a0, a1, r0, d0, d1) ==
    IF d1 = 0 THEN NoMatch
    ELSE [matched |-> TRUE,
          timestamp |-> SubSeq(s, 1, t0 - 1),
          uid |-> SubSeq(s, u0, u1 - 1),
          gid |-> SubSeq(s, g0, g1 - 1),
          pid |-> SubSeq(s, p0, p1 - 1),
          operation |-> SubSeq(s, o0, o1 - 1),
          args |-> SubSeq(s, a0, a1 - 1),
          result_debug |-> SubSeq(s, r0, d0 - 1),
          duration |-> SubSeq(s, d0 + 2, d1 - 2),
          end |-> d1]

\* re.match(pattern, s): the groups, or NoMatch.
Match(s) ==
    LET t0 == TimestampEnd(s, 1)
        u0 == Lit(s, t0, <<" ", "[", "u", "i", "d", ":">>)
        u1 == Plus(s, u0, Digit)
        g0 == Lit(s, u1, <<",", "g", "i", "d", ":">>)
        g1 == Plus(s, g0, Digit)
        p0 == Lit(s, g1, <<",", "p", "i", "d", ":">>)
        p1 == Plus(s, p0, Digit)
        o0 == Lit(s, p1, <<"]", " ">>)
        o1 == Plus(s, o0, WordChar)
        a0 == Lit(s, o1, <<" ", "(">>)
        a1 == ArgsEnd(s, a0)
        r0 == Lit(s, a1, <<")", ":", " ", "O", "K">>)
        d0 == DebugEnd(s, r0)
        d1 == DurationEnd(s, d0)
    IN  Groups(s, t0, u0, u1, g0, g1, p0, p1, o0, o1, a0, a1, r0, d0, d1)

(***************************************************************************)
(* re.search on the debug text.                                            *)
(***************************************************************************)
\* \((\d+)\) at position i: the position after ")", or 0.
ParenIntEnd(s, i) == Lit(s, Plus(s, Lit(s, i, <<"(">>), Digit), <<")">>)

\* \[handle:(\w+)\] at position i: the position after "]", or 0.
HandleEnd(s, i) ==
    Lit(s, Plus(s, Lit(s, i, <<"[", "h", "a", "n", "d", "l", "e", ":">>),
                WordChar), <<"]">>)

\* re.search(r'\((\d+)\)', s): group 1 of the leftmost match, <<>> if none.
SearchParenInt(s) ==
    IF \E i \in 1..Len(s) : ParenIntEnd(s, i) # 0
    THEN LET i == CHOOSE i \in 1..Len(s) :
                      /\ ParenIntEnd(s, i) # 0
                      /\ \A j \in 1..(i - 1) : ParenIntEnd(s, j) = 0
         IN  SubSeq(s, i + 1, ParenIntEnd(s, i) - 2)
    ELSE <<>>

\* re.search(r'\[handle:(\w+)\]', s): group 1 of the leftmost match, <<>> if none.
SearchHandle(s) ==
    IF \E i \in 1..Len(s) : HandleEnd(s, i) # 0
    THEN LET i == CHOOSE i \in 1..Len(s) :
                      /\ HandleEnd(s, i) # 0
                      /\ \A j \in 1..(i - 1) : HandleEnd(s, j) = 0
         IN  SubSeq(s, i + 8, HandleEnd(s, i) - 2)
    ELSE <<>>

(***************************************************************************)
(* parse_log_line.                                                         *)
(***************************************************************************)
OpRead == <<"r", "e", "a", "d">>
OpWrite == <<"w", "r", "i", "t", "e">>
OpOpen == <<"o", "p", "e", "n">>
OpGetattr == <<"g", "e", "t", "a", "t", "t", "r">>
OpCreate == <<"c", "r", "e", "a", "t", "e">>
OpUnlink == <<"u", "n", "l", "i", "n", "k">>
OpFlush == <<"f", "l", "u", "s", "h">>
OpLookup == <<"l", "o", "o", "k", "u", "p">>
OpStatfs == <<"s", "t", "a", "t", "f", "s">>

\* The outcomes of a call.
ReturnNone == [kind |-> "None"]
Raise(exc) == [kind |-> "raise", exc |-> exc]
Return(rec) == [kind |-> "record", rec |-> rec]

\* args_list = [arg.strip() for arg in args.split(',')]
ArgsList(args) == LET parts == split(args) IN [i \in 1..Len(parts) |-> strip(parts[i])]

\* The operation-specific fields (lines 34-85): [ok |-> TRUE, f |-> fields], or
\* [ok |-> FALSE] when an int() of the branch raises ValueError.
Fields(f) == [ok |-> TRUE, f |-> f]
ValueError == [ok |-> FALSE]
NoFields == Fields(<<>>)

AllInts(a, idx) == \A i \in idx : IntLiteralOk(a[i])

Enrich(operation, a, result_debug) ==
    CASE operation = OpRead /\ Len(a) >= 4 ->
            IF ~AllInts(a, 1..4) THEN ValueError
            ELSE LET m == SearchParenInt(result_debug) IN
                 Fields([inode |-> PyInt(IntValue(a[1])),
                         size |-> IntValue(a[2]),
                         offset |-> IntValue(a[3]),
                         handle |-> PyInt(IntValue(a[4])),
                         bytes_read |-> IF m # <<>> THEN IntValue(m)
                                        ELSE IntValue(a[2])])
      [] operation = OpOpen /\ Len(a) >= 2 ->
            IF ~AllInts(a, {1}) THEN ValueError
            ELSE LET h == SearchHandle(result_debug) IN
                 Fields([inode |-> PyInt(IntValue(a[1])),
                         flags |-> a[2],
                         handle |-> IF h # <<>> THEN PyStr(h) ELSE None])
      [] operation = OpGetattr /\ Len(a) >= 1 ->
            LET ino == IF isdigit(a[1]) THEN PyInt(IntValue(a[1])) ELSE None IN
            Fields(IF Len(a) > 1 THEN [inode |-> ino, flags |-> a[2]]
                   ELSE [inode |-> ino])
      [] operation = OpCreate /\ Len(a) >= 4 ->
            IF ~AllInts(a, {1}) THEN ValueError
            ELSE Fields([parent_inode |-> IntValue(a[1]), name |-> a[2],
                         mode |-> a[3], umask |-> a[4]])
      [] operation = OpWrite /\ Len(a) >= 4 ->
            IF ~AllInts(a, 1..4) THEN ValueError
            ELSE Fields([inode |-> PyInt(IntValue(a[1])),
                         size |-> IntValue(a[2]),
                         offset |-> IntValue(a[3]),
                         handle |-> PyInt(IntValue(a[4]))])
      [] operation = OpUnlink /\ Len(a) >= 2 ->
            IF ~AllInts(a, {1}) THEN ValueError
            ELSE Fields([parent_inode |-> IntValue(a[1]), name |-> a[2]])
      [] operation = OpFlush /\ Len(a) >= 2 ->
            IF ~AllInts(a, 1..2) THEN ValueError
            ELSE Fields([inode |-> PyInt(IntValue(a[1])),
                         handle |-> PyInt(IntValue(a[2]))])
      [] OTHER ->
            IF operation \in {OpLookup, OpStatfs} /\ isdigit(a[1])
            THEN Fields([inode |-> PyInt(IntValue(a[1]))])
            ELSE NoFields

\* lines 21-30: the fields every record has
BaseFields(m, args_list) ==
    [timestamp |-> m.timestamp,
     uid |-> IntValue(m.uid),
     gid |-> IntValue(m.gid),
     pid |-> IntValue(m.pid),
     operation |-> m.operation,
     duration |-> FloatValue(m.duration),
     args |-> args_list,
     result_debug |-> strip(m.result_debug)]

\* lines 34-87: the record, unless an int() of the operation's branch raises
WithFields(base, extra) ==
    IF extra.ok THEN Return(extra.f @@ base) ELSE Raise("ValueError")

\* lines 18-87, with args_list of line 18
FromArgs(m, args_list) ==
    WithFields(BaseFields(m, args_list),
               Enrich(m.operation, args_list, m.result_debug))

\* lines 14-88: what the function does with the result of re.match
FromMatch(m) ==
    IF ~m.matched THEN ReturnNone
    ELSE IF ~FloatLiteralOk(m.duration) THEN Raise("ValueError")
    ELSE FromArgs(m, ArgsList(m.args))

\* parse_log_line(line): Return(record), ReturnNone or Raise("ValueError").
parse_log_line(l) == FromMatch(Match(strip(l)))

(***************************************************************************)
(* Ordering of str values (Python compares code point by code point; a     *)
(* proper prefix is smaller).  The timestamps the pattern accepts hold     *)
(* only digits, '.', ':' and ' '; the operation names of the model hold    *)
(* only lowercase letters.                                                 *)
(***************************************************************************)
Lowercase ==
    <<"a", "b", "c", "d", "e", "f", "g", "h", "i", "j", "k", "l", "m",
      "n", "o", "p", "q", "r", "s", "t", "u", "v", "w", "x", "y", "z">>

CodePoint(c) ==
    CASE c = " " -> 32
      [] c = "." -> 46
      [] c \in Digit -> 48 + DigitValue(c)
      [] c = ":" -> 58
      [] OTHER -> 96 + CHOOSE i \in 1..Len(Lowercase) : Lowercase[i] = c

\* a < b
StrLess(a, b) ==
    \/ Len(a) < Len(b) /\ SubSeq(b, 1, Len(a)) = a
    \/ \E i \in 1..(IF Len(a) < Len(b) THEN Len(a) ELSE Len(b)) :
           /\ CodePoint(a[i]) < CodePoint(b[i])
           /\ \A j \in 1..(i - 1) : a[j] = b[j]

(***************************************************************************)
(* analyze_access_pattern.                                                 *)
(***************************************************************************)
Abs(x) == IF x < 0 THEN 0 - x ELSE x

RECURSIVE SumSeq(_)
SumSeq(q) == IF q = <<>> THEN 0 ELSE Head(q) + SumSeq(Tail(q))

RECURSIVE MaxSeq(_)
MaxSeq(q) ==
    IF Len(q) = 1 THEN q[1]
    ELSE LET m == MaxSeq(Tail(q)) IN IF Head(q) > m THEN Head(q) ELSE m

\* line 165: the read and write records that carry an offset
IsIoOp(op) == op.operation \in {OpRead, OpWrite} /\ "offset" \in DOMAIN op
IoOps(ops) == SelectSeq(ops, IsIoOp)

\* lines 176-178: the keys of by_inode, in the order of their first insertion
RECURSIVE InodeKeys(_, _)
InodeKeys(io_ops, seen) ==
    IF io_ops = <<>> THEN <<>>
    ELSE IF Head(io_ops).inode \in seen THEN InodeKeys(Tail(io_ops), seen)
    ELSE <<Head(io_ops).inode>>
         \o InodeKeys(Tail(io_ops), seen \cup {Head(io_ops).inode})

\* by_inode[k]: the records of inode k in input order
GroupOf(io_ops, k) == LET SameInode(op) == op.inode = k IN SelectSeq(io_ops, SameInode)

\* list.sort(key=timestamp) is stable: a record goes after every record whose
\* timestamp is not greater than its own, so records with equal timestamps
\* keep their input order.
RECURSIVE InsertByTimestamp(_, _)
InsertByTimestamp(sorted, op) ==
    IF sorted = <<>> THEN <<op>>
    ELSE IF StrLess(op.timestamp, sorted[Len(sorted)].timestamp)
    THEN InsertByTimestamp(SubSeq(sorted, 1, Len(sorted) - 1), op)
         \o <<sorted[Len(sorted)]>>
    ELSE sorted \o <<op>>

RECURSIVE SortFrom(_, _)
SortFrom(sorted, rest) ==
    IF rest = <<>> THEN sorted
    ELSE SortFrom(InsertByTimestamp(sorted, Head(rest)), Tail(rest))

\* line 191
SortByTimestamp(ops) == SortFrom(<<>>, ops)

\* lines 186-191: the groups the loop analyses, each sorted; singleton groups are
\* skipped
SortedGroups(io_ops) ==
    LET keys == InodeKeys(io_ops, {})
        NotSingleton(g) == Len(g) >= 2
    IN  SelectSeq([i \in 1..Len(keys) |->
                      SortByTimestamp(GroupOf(io_ops, keys[i]))],
                  NotSingleton)

\* lines 180-184
ZeroCounters ==
    [sequential_count |-> 0, random_count |-> 0, backward_seeks |-> 0,
     forward_seeks |-> 0, seek_distances |-> <<>>]

\* A variant of line 206 with < for <=: a gap of exactly prev.size is random.
IsSequentialStrict(seek_distance, prev_op) == seek_distance < prev_op.size

\* line 206: the transition is sequential
IsSequential(seek_distance, prev_op) == seek_distance <= prev_op.size

\* line 211: a random transition is a backward seek
IsBackward(curr_start, prev_op) == curr_start < prev_op.offset

\* A variant of lines 206-214 without the else: random_count and the seek
\* counters are updated for every transition, the sequential ones included.
TransitionCountedTwice(c, prev_op, curr_op) ==
    LET prev_end == prev_op.offset + prev_op.size
        curr_start == curr_op.offset
        seek_distance == Abs(curr_start - prev_end)
        d == [c EXCEPT !.seek_distances = Append(@, seek_distance),
                       !.sequential_count =
                           IF seek_distance <= prev_op.size THEN @ + 1 ELSE @]
    IN  IF curr_start < prev_op.offset
        THEN [d EXCEPT !.random_count = @ + 1, !.backward_seeks = @ + 1]
        ELSE [d EXCEPT !.random_count = @ + 1, !.forward_seeks = @ + 1]

\* lines 195-214: one iteration of the inner loop
Transition(c, prev_op, curr_op) ==
    LET prev_end == prev_op.offset + prev_op.size
        curr_start == curr_op.offset
        seek_distance == Abs(curr_start - prev_end)
        d == [c EXCEPT !.seek_distances = Append(@, seek_distance)]
    IN  IF IsSequential(seek_distance, prev_op)
        THEN [d EXCEPT !.sequential_count = @ + 1]
        ELSE IF IsBackward(curr_start, prev_op)
        THEN [d EXCEPT !.random_count = @ + 1, !.backward_seeks = @ + 1]
        ELSE [d EXCEPT !.random_count = @ + 1, !.forward_seeks = @ + 1]

\* lines 194-214: for i in range(1, len(ops))
RECURSIVE GroupLoop(_, _, _)
GroupLoop(c, ops, i) ==
    IF i > Len(ops) THEN c
    ELSE GroupLoop(Transition(c, ops[i - 1], ops[i]), ops, i + 1)

\* lines 186-214: for ops in by_inode.values()
RECURSIVE GroupsLoop(_, _)
GroupsLoop(c, groups) ==
    IF groups = <<>> THEN c
    ELSE GroupsLoop(GroupLoop(c, Head(groups), 2), Tail(groups))

\* The counters when the loops end.
Counters(ops) == GroupsLoop(ZeroCounters, SortedGroups(IoOps(ops)))

\* The largest number of transitions the table below covers.
PercentageRange == 8

\* lines 225-226: (count / total_transitions) * 100, tabulated once for the
\* counts the model reaches (the body is the computation of the code).
PercentageTable ==
    [total \in 1..PercentageRange |->
        [count \in 0..total |-> FMulInt(FDivInt(count, total), 100)]]

Percentage(count, total) == PercentageTable[total][count]

\* lines 229-234
PatternOf(seq_percentage) ==
    IF FLess(FromInt(70), seq_percentage) THEN "sequential"
    ELSE IF FLess(seq_percentage, FromInt(30)) THEN "random"
    ELSE "mixed"

\* lines 168-173 and 218-223: the result without the seek statistics
ReducedResult(pattern) ==
    [pattern |-> pattern, sequential_percentage |-> FZero,
     random_percentage |-> FZero, total_transitions |-> 0]

\* lines 216-245
ResultOf(c) ==
    LET total_transitions == c.sequential_count + c.random_count
        seq_percentage == Percentage(c.sequential_count, total_transitions)
    IN  IF total_transitions = 0 THEN ReducedResult("unknown")
        ELSE [pattern |-> PatternOf(seq_percentage),
              sequential_percentage |-> seq_percentage,
              random_percentage |-> Percentage(c.random_count, total_transitions),
              total_transitions |-> total_transitions,
              backward_seeks |-> c.backward_seeks,
              forward_seeks |-> c.forward_seeks,
              avg_seek_distance |->
                  FDivInt(SumSeq(c.seek_distances), Len(c.seek_distances)),
              max_seek_distance |-> MaxSeq(c.seek_distances)]

analyze_access_pattern(ops) ==
    IF Len(IoOps(ops)) < 2 THEN ReducedResult("insufficient_data")
    ELSE ResultOf(Counters(ops))

(***************************************************************************)
(* analyze_io_behavior.  A defaultdict(int) is a function from the keys    *)
(* inserted so far to their counts.                                        *)
(***************************************************************************)
\* d[k] += 1
Increment(d, k) ==
    IF k \in DOMAIN d THEN [d EXCEPT ![k] = @ + 1] ELSE (k :> 1) @@ d

\* sum(d.values())
RECURSIVE SumValues(_, _)
SumValues(d, keys) ==
    IF keys = {} THEN 0
    ELSE LET k == CHOOSE k \in keys : TRUE
         IN  d[k] + SumValues(d, keys \ {k})

\* line 101: the record counts for its handle
HasHandle(op) == "handle" \in DOMAIN op /\ Truthy(op.handle)

\* line 103: the record counts for its inode
HasInode(op) == "inode" \in DOMAIN op /\ Truthy(op.inode)

\* lines 101-102
CountHandle(usage, op) ==
    IF HasHandle(op) THEN Increment(usage, op.handle) ELSE usage

\* lines 103-104
CountInode(counts, op) ==
    IF HasInode(op) THEN Increment(counts, op.inode) ELSE counts

\* line 148: files with more operations than this are high-activity files
HighActivityThreshold == 100

\* line 148
HighActivityFiles(counts) ==
    Cardinality({k \in DOMAIN counts : counts[k] > HighActivityThreshold})

\* lines 151-153: the part of the result that is computed from the two dicts
HandleAndInodeResult(usage, counts) ==
    [unique_handles |-> Cardinality(DOMAIN usage),
     avg_ops_per_handle |->
         IF DOMAIN usage # {}
         THEN FDivInt(SumValues(usage, DOMAIN usage), Cardinality(DOMAIN usage))
         ELSE FZero,
     high_activity_files |-> HighActivityFiles(counts)]

\* lines 100-104 over a whole list
RECURSIVE HandleUsage(_, _)
HandleUsage(usage, ops) ==
    IF ops = <<>> THEN usage
    ELSE HandleUsage(CountHandle(usage, Head(ops)), Tail(ops))

RECURSIVE InodeOperations(_, _)
InodeOperations(counts, ops) ==
    IF ops = <<>> THEN counts
    ELSE InodeOperations(CountInode(counts, Head(ops)), Tail(ops))

(***************************************************************************)
(* The temporal part of analyze_io_behavior.  A time of day is kept exact, *)
(* as whole seconds and microseconds [s |-> , us |-> ] with us < 10^6      *)
(* (the code holds it in a float: the rounding of these sums is not        *)
(* modelled).                                                              *)
(***************************************************************************)
Million == 1000000

\* lines 112-117: hour * 3600 + minute * 60 + second + microsec / 1000000.0,
\* where microsec is the int of ALL the digits after the dot
TotalSeconds(timestamp_str) ==
    LET time_str == SubSeq(timestamp_str, IndexOf(timestamp_str, " ") + 1,
                           Len(timestamp_str))
        dot == IndexOf(time_str, ".")
        time_part == SubSeq(time_str, 1, dot - 1)
        microsec == IntValue(SubSeq(time_str, dot + 1, Len(time_str)))
        hour == IntValue(SubSeq(time_part, 1, 2))
        minute == IntValue(SubSeq(time_part, 4, 5))
        second == IntValue(SubSeq(time_part, 7, 8))
    IN  [s |-> hour * 3600 + minute * 60 + second + microsec \div Million,
         us |-> microsec % Million]

TimeLess(a, b) == a.s < b.s \/ (a.s = b.s /\ a.us < b.us)

\* b - a for a <= b
TimeDiff(b, a) ==
    IF b.us >= a.us THEN [s |-> b.s - a.s, us |-> b.us - a.us]
    ELSE [s |-> b.s - a.s - 1, us |-> b.us + Million - a.us]

TimeZero == [s |-> 0, us |-> 0]

\* min() and max() of a non-empty list of str
RECURSIVE MinStr(_)
MinStr(q) ==
    IF Len(q) = 1 THEN q[1]
    ELSE LET m == MinStr(Tail(q)) IN IF StrLess(m, Head(q)) THEN m ELSE Head(q)

RECURSIVE MaxStr(_)
MaxStr(q) ==
    IF Len(q) = 1 THEN q[1]
    ELSE LET m == MaxStr(Tail(q)) IN IF StrLess(Head(q), m) THEN m ELSE Head(q)

\* min() and max() of a non-empty list of times
RECURSIVE MinTime(_)
MinTime(q) ==
    IF Len(q) = 1 THEN q[1]
    ELSE LET m == MinTime(Tail(q)) IN IF TimeLess(m, Head(q)) THEN m ELSE Head(q)

RECURSIVE MaxTime(_)
MaxTime(q) ==
    IF Len(q) = 1 THEN q[1]
    ELSE LET m == MaxTime(Tail(q)) IN IF TimeLess(Head(q), m) THEN m ELSE Head(q)

\* lines 139-145: the positive gaps between neighbours of the sorted times are
\* the gaps between the distinct times
PositiveGaps(times) ==
    LET distinct == {times[i] : i \in 1..Len(times)}
    IN  {TimeDiff(b, a) : <<a, b>> \in
            {p \in distinct \X distinct :
                /\ TimeLess(p[1], p[2])
                /\ ~\E c \in distinct : TimeLess(p[1], c) /\ TimeLess(c, p[2])}}

\* lines 107-145 and 154-160
TemporalResult(ops) ==
    LET raw_timestamps == [i \in 1..Len(ops) |-> ops[i].timestamp]
        operation_timestamps == [i \in 1..Len(ops) |-> TotalSeconds(ops[i].timestamp)]
        time_span_seconds ==
            IF Len(ops) > 1
            THEN TimeDiff(MaxTime(operation_timestamps), MinTime(operation_timestamps))
            ELSE TimeZero
    IN  [temporal_gaps |->
             IF Len(ops) > 1 THEN Cardinality(PositiveGaps(operation_timestamps))
             ELSE 0,
         time_span_seconds |-> time_span_seconds,
         ops_per_second |->
             IF time_span_seconds # TimeZero
             THEN [count |-> Len(ops), per |-> time_span_seconds]
             ELSE [count |-> 0, per |-> TimeZero],
         start_time |-> MinStr(raw_timestamps),
         end_time |-> MaxStr(raw_timestamps)]

\* analyze_io_behavior(operations): {} for an empty list
analyze_io_behavior(ops) ==
    IF ops = <<>> THEN <<>>
    ELSE HandleAndInodeResult(HandleUsage(<<>>, ops), InodeOperations(<<>>, ops))
         @@ TemporalResult(ops)

(***************************************************************************)
(* analyze_log.  What it prints is kept as a list of rows: the label of    *)
(* the row and, where the row shows a count, the count (the layout of a    *)
(* row and the formatting of sizes and floats are not modelled).           *)
(***************************************************************************)
Row(label) == [row |-> label]
RowN(label, n) == [row |-> label, n |-> n]
Rows(cond, rows) == IF cond THEN rows ELSE <<>>

\* A variant of line 268 that never takes the early return.
NeverNoOperations(ops) == FALSE

\* line 268: not operations
NoOperations(ops) == ops = <<>>

\* lines 285 and 288
IsSizedRead(op) == op.operation = OpRead /\ "size" \in DOMAIN op
IsSizedWrite(op) == op.operation = OpWrite /\ "size" \in DOMAIN op

SizesOf(q) == [i \in 1..Len(q) |-> q[i].size]

\* lines 276-277, 286 and 289
ReadSizes(ops) == SizesOf(SelectSeq(ops, IsSizedRead))
WriteSizes(ops) == SizesOf(SelectSeq(ops, IsSizedWrite))

\* line 287: op.get('bytes_read', op['size'])
BytesRead(op) == IF "bytes_read" \in DOMAIN op THEN op.bytes_read ELSE op.size

BytesOf(q) == [i \in 1..Len(q) |-> BytesRead(q[i])]

\* lines 274-275, 287 and 290
TotalReadBytes(ops) == SumSeq(BytesOf(SelectSeq(ops, IsSizedRead)))
TotalWriteBytes(ops) == SumSeq(WriteSizes(ops))

\* lines 279 and 292-293
Inodes(ops) ==
    {ops[i].inode : i \in {j \in 1..Len(ops) : "inode" \in DOMAIN ops[j]}}

\* lines 273 and 282: op_counts[t]
OpCount(ops, t) == Cardinality({i \in 1..Len(ops) : ops[i].operation = t})

\* line 333: the keys of op_counts in sorted order
RECURSIVE SortedNames(_)
SortedNames(names) ==
    IF names = {} THEN <<>>
    ELSE LET least == CHOOSE a \in names : \A b \in names \ {a} : StrLess(a, b)
         IN  <<least>> \o SortedNames(names \ {least})

OperationNames(ops) == SortedNames({ops[i].operation : i \in 1..Len(ops)})

\* lines 333-335
BreakdownRows(ops, names) ==
    [i \in 1..Len(names) |->
        [row |-> "operation", operation |-> names[i], n |-> OpCount(ops, names[i])]]

\* lines 307-319
TimeSpanRows(io) ==
    Rows(DOMAIN io # {} /\ io.start_time # <<>> /\ io.end_time # <<>>,
         <<Row("Time Span Start"), Row("Time Span End")>>
         \o Rows(TimeLess(TimeZero, io.time_span_seconds),
                 <<Row("Total Time Span"), Row("Operations per Second")>>))

\* lines 323-328
DataRows(read_bytes, write_bytes) ==
    <<Row("Total Data Read")>>
    \o Rows(write_bytes > 0, <<Row("Total Data Written")>>)
    \o Rows(read_bytes + write_bytes > 0, <<Row("Total Data Transfer")>>)

\* lines 341-360
StatisticsRows(reads, writes) ==
    Rows(reads # <<>>,
         <<RowN("Total Reads", Len(reads)), Row("Min Read Size"),
           Row("Max Read Size"), Row("Avg Read Size"), Row("Median Read Size")>>)
    \o Rows(writes # <<>>,
            <<RowN("Total Writes", Len(writes)), Row("Min Write Size"),
              Row("Max Write Size"), Row("Avg Write Size"),
              Row("Median Write Size")>>)
    \o Rows(Len(reads) + Len(writes) > 0, <<Row("Read/Write Ratio")>>)

\* lines 365-382
PerformanceRows(read_bytes, write_bytes) ==
    <<Row("Min Duration"), Row("Max Duration"), Row("Avg Duration"),
      Row("Median Duration"), Row("Total Duration")>>
    \o Rows(read_bytes + write_bytes > 0,
            <<Row("Avg Throughput")>>
            \o Rows(read_bytes > 0, <<Row("Read Throughput")>>)
            \o Rows(write_bytes > 0, <<Row("Write Throughput")>>))

\* lines 302-382
SummaryRows(ops, reads, writes, io) ==
    <<Row("LOG ANALYSIS SUMMARY"),
      RowN("Total Operations", Len(ops)),
      RowN("Unique Inodes", Cardinality(Inodes(ops)))>>
    \o TimeSpanRows(io)
    \o <<Row("Access Pattern"), Row("Sequential Access"), Row("Random Access")>>
    \o DataRows(TotalReadBytes(ops), TotalWriteBytes(ops))
    \o <<Row("OPERATION BREAKDOWN")>>
    \o BreakdownRows(ops, OperationNames(ops))
    \o <<Row("I/O STATISTICS")>>
    \o StatisticsRows(reads, writes)
    \o <<Row("PERFORMANCE METRICS")>>
    \o PerformanceRows(TotalReadBytes(ops), TotalWriteBytes(ops))

\* lines 384-387
TransitionRows(access) ==
    <<Row("I/O BEHAVIOR"), RowN("Total Transitions", access.total_transitions)>>

\* lines 388-392
SeekRows(access) ==
    <<RowN("Backward Seeks", access.backward_seeks),
      RowN("Forward Seeks", access.forward_seeks)>>
    \o Rows(FLess(FZero, access.avg_seek_distance),
            <<Row("Avg Seek Distance"), Row("Max Seek Distance")>>)

\* lines 394-400
HandleRows(io) ==
    Rows(DOMAIN io # {},
         <<RowN("Unique File Handles", io.unique_handles),
           Row("Avg Ops per Handle"),
           RowN("Files with >100 Ops", io.high_activity_files)>>
         \o Rows(io.temporal_gaps # 0, <<Row("Max Time Gap"), Row("Avg Time Gap")>>))

\* line 428: the order of the buckets in the report
BucketLabels == <<"<=4KB", "<=8KB", "<=32KB", "<=64KB", "<=128KB", ">128KB">>

\* A variant of lines 415-426 with < for <=: a size on a bound goes one bucket up.
BucketBelowBound(size) ==
    IF size < 4096 THEN "<=4KB"
    ELSE IF size < 8192 THEN "<=8KB"
    ELSE IF size < 32768 THEN "<=32KB"
    ELSE IF size < 65536 THEN "<=64KB"
    ELSE IF size < 131072 THEN "<=128KB"
    ELSE ">128KB"

\* lines 415-426: the bucket of a size
Bucket(size) ==
    IF size <= 4096 THEN "<=4KB"
    ELSE IF size <= 8192 THEN "<=8KB"
    ELSE IF size <= 32768 THEN "<=32KB"
    ELSE IF size <= 65536 THEN "<=64KB"
    ELSE IF size <= 131072 THEN "<=128KB"
    ELSE ">128KB"

\* buckets[label] += 1 on a defaultdict(int): the dict is the list of its
\* <<label, count>> items in the order of their insertion
AddToBucket(buckets, label) ==
    IF \E i \in 1..Len(buckets) : buckets[i][1] = label
    THEN [i \in 1..Len(buckets) |->
             IF buckets[i][1] = label THEN <<label, buckets[i][2] + 1>>
             ELSE buckets[i]]
    ELSE Append(buckets, <<label, 1>>)

\* lines 413-426: for size in read_sizes
RECURSIVE BucketLoop(_, _)
BucketLoop(buckets, sizes) ==
    IF sizes = <<>> THEN buckets
    ELSE BucketLoop(AddToBucket(buckets, Bucket(Head(sizes))), Tail(sizes))

\* line 428: [...].index(x[0])
LabelIndex(label) ==
    CHOOSE i \in 1..Len(BucketLabels) : BucketLabels[i] = label

\* line 428: sorted(items, key=index), a stable insertion by key
RECURSIVE InsertByIndex(_, _)
InsertByIndex(sorted, item) ==
    IF sorted = <<>> THEN <<item>>
    ELSE IF LabelIndex(item[1]) < LabelIndex(sorted[Len(sorted)][1])
    THEN InsertByIndex(SubSeq(sorted, 1, Len(sorted) - 1), item)
         \o <<sorted[Len(sorted)]>>
    ELSE sorted \o <<item>>

RECURSIVE SortItems(_, _)
SortItems(sorted, rest) ==
    IF rest = <<>> THEN sorted
    ELSE SortItems(InsertByIndex(sorted, Head(rest)), Tail(rest))

\* lines 428-430: one row per bucket of the dict, `sizes` naming the list
BucketRows(kind, items) ==
    [i \in 1..Len(items) |->
        [row |-> items[i][1], n |-> items[i][2], sizes |-> kind]]

\* lines 405-456
DistributionRows(reads, writes) ==
    Rows(reads # <<>> \/ writes # <<>>,
         <<Row("I/O SIZE DISTRIBUTION")>>
         \o Rows(reads # <<>>,
                 <<Row("READ SIZES")>>
                 \o BucketRows("read", SortItems(<<>>, BucketLoop(<<>>, reads))))
         \o Rows(writes # <<>>,
                 <<Row("WRITE SIZES")>>
                 \o BucketRows("write", SortItems(<<>>, BucketLoop(<<>>, writes)))))

(***************************************************************************)
(* The lines parse_log_line is applied to: every concatenation of one      *)
(* choice per part.  Each part holds the well-formed text and the ways a   *)
(* line of a real log departs from it.                                     *)
(***************************************************************************)
\* what precedes the timestamp
LineLead ==
    {
      \* 
      <<>>,
      \*  
      <<" ">>,
      \* x
      <<"x">>
    }
\* the timestamp
LineStamp ==
    {
      \* 2024.01.01 10:00:00.000000
      <<"2", "0", "2", "4", ".", "0", "1", ".", "0", "1", " ", "1", "0", ":",
        "0", "0", ":", "0", "0", ".", "0", "0", "0", "0", "0", "0">>
    }
\* the uid/gid/pid group, in square or in round brackets
LineIds ==
    {
      \*  [uid:0,gid:0,pid:1] 
      <<" ", "[", "u", "i", "d", ":", "0", ",", "g", "i", "d", ":", "0", ",",
        "p", "i", "d", ":", "1", "]", " ">>,
      \*  (uid:0,gid:0,pid:1) 
      <<" ", "(", "u", "i", "d", ":", "0", ",", "g", "i", "d", ":", "0", ",",
        "p", "i", "d", ":", "1", ")", " ">>
    }
\* the operation and its arguments
LineCall ==
    {
      \* read (5,4096,0,7)
      <<"r", "e", "a", "d", " ", "(", "5", ",", "4", "0", "9", "6", ",", "0",
        ",", "7", ")">>,
      \* read (a,4096,0,7)
      <<"r", "e", "a", "d", " ", "(", "a", ",", "4", "0", "9", "6", ",", "0",
        ",", "7", ")">>,
      \* read (5,4096)
      <<"r", "e", "a", "d", " ", "(", "5", ",", "4", "0", "9", "6", ")">>,
      \* write (5,1_0, -2,+7)
      <<"w", "r", "i", "t", "e", " ", "(", "5", ",", "1", "_", "0", ",", " ",
        "-", "2", ",", "+", "7", ")">>,
      \* write (5,,0,7)
      <<"w", "r", "i", "t", "e", " ", "(", "5", ",", ",", "0", ",", "7",
        ")">>,
      \* open (5,O_RDONLY)
      <<"o", "p", "e", "n", " ", "(", "5", ",", "O", "_", "R", "D", "O", "N",
        "L", "Y", ")">>,
      \* open (z,1)
      <<"o", "p", "e", "n", " ", "(", "z", ",", "1", ")">>,
      \* getattr (x)
      <<"g", "e", "t", "a", "t", "t", "r", " ", "(", "x", ")">>,
      \* flush (5,h)
      <<"f", "l", "u", "s", "h", " ", "(", "5", ",", "h", ")">>,
      \* create (a,f,1,2)
      <<"c", "r", "e", "a", "t", "e", " ", "(", "a", ",", "f", ",", "1", ",",
        "2", ")">>,
      \* unlink (p,f)
      <<"u", "n", "l", "i", "n", "k", " ", "(", "p", ",", "f", ")">>,
      \* lookup (1,f)
      <<"l", "o", "o", "k", "u", "p", " ", "(", "1", ",", "f", ")">>
    }
\* the success marker, or another word
LineResult ==
    {
      \* : OK
      <<":", " ", "O", "K">>,
      \* : ERR
      <<":", " ", "E", "R", "R">>
    }
\* the debug text after OK
LineDebug ==
    {
      \* 
      <<>>,
      \*  (4096)
      <<" ", "(", "4", "0", "9", "6", ")">>,
      \*  [handle:ab1]
      <<" ", "[", "h", "a", "n", "d", "l", "e", ":", "a", "b", "1", "]">>,
      \*  <0.5> x
      <<" ", "<", "0", ".", "5", ">", " ", "x">>
    }
\* the duration marker: a number, not a number, or missing
LineDuration ==
    {
      \*  <0.001000>
      <<" ", "<", "0", ".", "0", "0", "1", "0", "0", "0", ">">>,
      \*  <1.2.3>
      <<" ", "<", "1", ".", "2", ".", "3", ">">>,
      \*  <.>
      <<" ", "<", ".", ">">>,
      \* 
      <<>>
    }
\* what follows the duration marker
LineTail ==
    {
      \* 
      <<>>,
      \*  
      <<" ">>,
      \*  tail
      <<" ", "t", "a", "i", "l">>,
      \* \n
      <<"\n">>
    }

ParseLines ==
    {a \o b \o c \o d \o e \o f \o g \o h :
        a \in LineLead, b \in LineStamp, c \in LineIds, d \in LineCall,
        e \in LineResult, f \in LineDebug, g \in LineDuration, h \in LineTail}

(***************************************************************************)
(* Idle values of the variables a specification does not use.              *)
(***************************************************************************)
NotCalled == [kind |-> "not called"]
ParseIdle == line = <<>> /\ parsed = NotCalled
AccessIdle ==
    operations = <<>> /\ access_analysis = NotCalled /\ baseline = NotCalled
LogIdle ==
    /\ io_analysis = NotCalled
    /\ pc = "idle"
    /\ read_sizes = <<>>
    /\ write_sizes = <<>>
    /\ read_size_buckets = <<>>
    /\ write_size_buckets = <<>>
    /\ output = <<>>
    /\ error = "none"
    /\ file = <<>>
    /\ lineno = 0
IoIdle == handle_usage = <<>> /\ inode_operations = <<>> /\ processed = <<>>

(***************************************************************************)
(* SpecParse: one call of parse_log_line on one line.                      *)
(***************************************************************************)
InitParse ==
    /\ line \in ParseLines
    /\ parsed = NotCalled
    /\ AccessIdle /\ LogIdle /\ IoIdle

ParseLine ==
    /\ parsed = NotCalled
    /\ parsed' = parse_log_line(line)
    /\ UNCHANGED <<line, accessVars, logVars, ioVars>>

NextParse == ParseLine

SpecParse == InitParse /\ [][NextParse]_vars

(***************************************************************************)
(* SpecAccess: analyze_access_pattern on record lists and on reorderings   *)
(* of them.  The records are those parse_log_line returns for these lines: *)
(* three reads of inode 5 at three times, a write of inode 5 at the time   *)
(* of the first read and one read size beyond its end, a write of inode 6, *)
(* and a getattr.                                                          *)
(***************************************************************************)
AccessLineList ==
    <<
      \* 2024.01.01 10:00:00.000000 [uid:0,gid:0,pid:1] read (5,4096,0,7): OK (4096) <0.001000>
      <<"2", "0", "2", "4", ".", "0", "1", ".", "0", "1", " ", "1", "0", ":",
        "0", "0", ":", "0", "0", ".", "0", "0", "0", "0", "0", "0", " ", "[",
        "u", "i", "d", ":", "0", ",", "g", "i", "d", ":", "0", ",", "p", "i",
        "d", ":", "1", "]", " ", "r", "e", "a", "d", " ", "(", "5", ",", "4",
        "0", "9", "6", ",", "0", ",", "7", ")", ":", " ", "O", "K", " ", "(",
        "4", "0", "9", "6", ")", " ", "<", "0", ".", "0", "0", "1", "0", "0",
        "0", ">">>,
      \* 2024.01.01 10:00:01.000000 [uid:0,gid:0,pid:1] read (5,4096,4096,7): OK (4096) <0.001000>
      <<"2", "0", "2", "4", ".", "0", "1", ".", "0", "1", " ", "1", "0", ":",
        "0", "0", ":", "0", "1", ".", "0", "0", "0", "0", "0", "0", " ", "[",
        "u", "i", "d", ":", "0", ",", "g", "i", "d", ":", "0", ",", "p", "i",
        "d", ":", "1", "]", " ", "r", "e", "a", "d", " ", "(", "5", ",", "4",
        "0", "9", "6", ",", "4", "0", "9", "6", ",", "7", ")", ":", " ", "O",
        "K", " ", "(", "4", "0", "9", "6", ")", " ", "<", "0", ".", "0", "0",
        "1", "0", "0", "0", ">">>,
      \* 2024.01.01 10:00:02.000000 [uid:0,gid:0,pid:1] read (5,100,1000000,7): OK (100) <0.001000>
      <<"2", "0", "2", "4", ".", "0", "1", ".", "0", "1", " ", "1", "0", ":",
        "0", "0", ":", "0", "2", ".", "0", "0", "0", "0", "0", "0", " ", "[",
        "u", "i", "d", ":", "0", ",", "g", "i", "d", ":", "0", ",", "p", "i",
        "d", ":", "1", "]", " ", "r", "e", "a", "d", " ", "(", "5", ",", "1",
        "0", "0", ",", "1", "0", "0", "0", "0", "0", "0", ",", "7", ")", ":",
        " ", "O", "K", " ", "(", "1", "0", "0", ")", " ", "<", "0", ".", "0",
        "0", "1", "0", "0", "0", ">">>,
      \* 2024.01.01 10:00:00.000000 [uid:0,gid:0,pid:1] write (5,10,8192,7): OK <0.001000>
      <<"2", "0", "2", "4", ".", "0", "1", ".", "0", "1", " ", "1", "0", ":",
        "0", "0", ":", "0", "0", ".", "0", "0", "0", "0", "0", "0", " ", "[",
        "u", "i", "d", ":", "0", ",", "g", "i", "d", ":", "0", ",", "p", "i",
        "d", ":", "1", "]", " ", "w", "r", "i", "t", "e", " ", "(", "5", ",",
        "1", "0", ",", "8", "1", "9", "2", ",", "7", ")", ":", " ", "O", "K",
        " ", "<", "0", ".", "0", "0", "1", "0", "0", "0", ">">>,
      \* 2024.01.01 10:00:01.000000 [uid:0,gid:0,pid:1] write (6,4096,0,8): OK <0.002000>
      <<"2", "0", "2", "4", ".", "0", "1", ".", "0", "1", " ", "1", "0", ":",
        "0", "0", ":", "0", "1", ".", "0", "0", "0", "0", "0", "0", " ", "[",
        "u", "i", "d", ":", "0", ",", "g", "i", "d", ":", "0", ",", "p", "i",
        "d", ":", "1", "]", " ", "w", "r", "i", "t", "e", " ", "(", "6", ",",
        "4", "0", "9", "6", ",", "0", ",", "8", ")", ":", " ", "O", "K", " ",
        "<", "0", ".", "0", "0", "2", "0", "0", "0", ">">>,
      \* 2024.01.01 10:00:03.000000 [uid:0,gid:0,pid:1] getattr (5): OK <0.000100>
      <<"2", "0", "2", "4", ".", "0", "1", ".", "0", "1", " ", "1", "0", ":",
        "0", "0", ":", "0", "3", ".", "0", "0", "0", "0", "0", "0", " ", "[",
        "u", "i", "d", ":", "0", ",", "g", "i", "d", ":", "0", ",", "p", "i",
        "d", ":", "1", "]", " ", "g", "e", "t", "a", "t", "t", "r", " ", "(",
        "5", ")", ":", " ", "O", "K", " ", "<", "0", ".", "0", "0", "0", "1",
        "0", "0", ">">>
    >>

AccessLines == {AccessLineList[i] : i \in 1..Len(AccessLineList)}

AccessRecordList ==
    [i \in 1..Len(AccessLineList) |-> parse_log_line(AccessLineList[i]).rec]

AccessRecords == {AccessRecordList[i] : i \in 1..Len(AccessRecordList)}

MaxAccessOps == 4

InitAccess ==
    /\ operations = <<>>
    /\ access_analysis = NotCalled
    /\ baseline = NotCalled
    /\ ParseIdle /\ LogIdle /\ IoIdle

\* The caller builds the list (analyze_log, line 266).
AppendRecord ==
    /\ Len(operations) < MaxAccessOps
    /\ access_analysis = NotCalled
    /\ \E r \in AccessRecords : operations' = Append(operations, r)
    /\ UNCHANGED <<access_analysis, baseline, parseVars, logVars, ioVars>>

\* access_analysis = analyze_access_pattern(operations)
Analyze ==
    /\ access_analysis = NotCalled
    /\ access_analysis' = analyze_access_pattern(operations)
    /\ UNCHANGED <<operations, baseline, parseVars, logVars, ioVars>>

Swap(q, i) ==
    [k \in 1..Len(q) |-> IF k = i THEN q[i + 1] ELSE IF k = i + 1 THEN q[i] ELSE q[k]]

\* The same records in another order (two neighbours exchanged), analysed
\* again; the result for the first order is kept in baseline.
Reorder ==
    /\ access_analysis # NotCalled
    /\ \E i \in 1..(Len(operations) - 1) :
           /\ operations[i] # operations[i + 1]
           /\ operations' = Swap(operations, i)
    /\ access_analysis' = analyze_access_pattern(operations')
    /\ baseline' = IF baseline = NotCalled THEN access_analysis ELSE baseline
    /\ UNCHANGED <<parseVars, logVars, ioVars>>

NextAccess == AppendRecord \/ Analyze \/ Reorder

SpecAccess == InitAccess /\ [][NextAccess]_vars

(***************************************************************************)
(* SpecIo: the loop of analyze_io_behavior (lines 100-104), one record per *)
(* step, and its return.  The list may be longer than the high-activity    *)
(* threshold, so the state keeps the two dicts and how often each record   *)
(* has been seen, not the list.  The records are those parse_log_line      *)
(* returns for these lines: a flush of inode 0 with handle 0, a read of    *)
(* inode 42 with handle 7, an open of inode 42 whose result names no       *)
(* handle.                                                                 *)
(***************************************************************************)
IoLineList ==
    <<
      \* 2024.01.01 10:00:00.000000 [uid:0,gid:0,pid:1] flush (0,0): OK <0.000100>
      <<"2", "0", "2", "4", ".", "0", "1", ".", "0", "1", " ", "1", "0", ":",
        "0", "0", ":", "0", "0", ".", "0", "0", "0", "0", "0", "0", " ", "[",
        "u", "i", "d", ":", "0", ",", "g", "i", "d", ":", "0", ",", "p", "i",
        "d", ":", "1", "]", " ", "f", "l", "u", "s", "h", " ", "(", "0", ",",
        "0", ")", ":", " ", "O", "K", " ", "<", "0", ".", "0", "0", "0", "1",
        "0", "0", ">">>,
      \* 2024.01.01 10:00:01.000000 [uid:0,gid:0,pid:1] read (42,4096,0,7): OK (4096) <0.001000>
      <<"2", "0", "2", "4", ".", "0", "1", ".", "0", "1", " ", "1", "0", ":",
        "0", "0", ":", "0", "1", ".", "0", "0", "0", "0", "0", "0", " ", "[",
        "u", "i", "d", ":", "0", ",", "g", "i", "d", ":", "0", ",", "p", "i",
        "d", ":", "1", "]", " ", "r", "e", "a", "d", " ", "(", "4", "2", ",",
        "4", "0", "9", "6", ",", "0", ",", "7", ")", ":", " ", "O", "K", " ",
        "(", "4", "0", "9", "6", ")", " ", "<", "0", ".", "0", "0", "1", "0",
        "0", "0", ">">>,
      \* 2024.01.01 10:00:02.000000 [uid:0,gid:0,pid:1] open (42,0): OK <0.000200>
      <<"2", "0", "2", "4", ".", "0", "1", ".", "0", "1", " ", "1", "0", ":",
        "0", "0", ":", "0", "2", ".", "0", "0", "0", "0", "0", "0", " ", "[",
        "u", "i", "d", ":", "0", ",", "g", "i", "d", ":", "0", ",", "p", "i",
        "d", ":", "1", "]", " ", "o", "p", "e", "n", " ", "(", "4", "2", ",",
        "0", ")", ":", " ", "O", "K", " ", "<", "0", ".", "0", "0", "0", "2",
        "0", "0", ">">>
    >>

IoRecords == {parse_log_line(IoLineList[i]).rec : i \in 1..Len(IoLineList)}

\* The length of the longest list, and the number of distinct records in it.
MaxIoOps == 102
MaxDistinctOps == 2

InitIo ==
    /\ handle_usage = <<>>
    /\ inode_operations = <<>>
    /\ processed = <<>>
    /\ io_analysis = NotCalled
    /\ pc = "io_loop"
    /\ read_sizes = <<>>
    /\ write_sizes = <<>>
    /\ read_size_buckets = <<>>
    /\ write_size_buckets = <<>>
    /\ output = <<>>
    /\ error = "none"
    /\ file = <<>>
    /\ lineno = 0
    /\ ParseIdle /\ AccessIdle

\* for op in operations: lines 101-104
IoLoopStep ==
    /\ pc = "io_loop"
    /\ SumValues(processed, DOMAIN processed) < MaxIoOps
    /\ \E op \in IoRecords :
           /\ handle_usage' = CountHandle(handle_usage, op)
           /\ inode_operations' = CountInode(inode_operations, op)
           /\ processed' = Increment(processed, op)
           /\ Cardinality(DOMAIN processed') <= MaxDistinctOps
    /\ UNCHANGED <<parseVars, accessVars, logVars>>

\* lines 147-153, for a list that is not empty
IoReturn ==
    /\ pc = "io_loop"
    /\ processed # <<>>
    /\ io_analysis' = HandleAndInodeResult(handle_usage, inode_operations)
    /\ pc' = "io_done"
    /\ UNCHANGED <<parseVars, accessVars, ioVars, read_sizes, write_sizes,
                   read_size_buckets, write_size_buckets, output, error,
                   file, lineno>>

NextIo == IoLoopStep \/ IoReturn

SpecIo == InitIo /\ [][NextIo]_vars

(***************************************************************************)
(* SpecLog: analyze_log on a readable file of at most MaxLogLines lines.   *)
(* The lines: a comment; a getattr; a read whose inode is not a number;    *)
(* four reads of inode 5 with sizes on both sides of the bucket bounds;    *)
(* two writes of inode 6.  Each line ends with a newline.                  *)
(***************************************************************************)
LogLineList ==
    <<
      \* # juicefs access log
      <<"#", " ", "j", "u", "i", "c", "e", "f", "s", " ", "a", "c", "c", "e",
        "s", "s", " ", "l", "o", "g", "\n">>,
      \* 2024.01.01 10:00:00.000000 [uid:0,gid:0,pid:1] getattr (5): OK <0.000100>
      <<"2", "0", "2", "4", ".", "0", "1", ".", "0", "1", " ", "1", "0", ":",
        "0", "0", ":", "0", "0", ".", "0", "0", "0", "0", "0", "0", " ", "[",
        "u", "i", "d", ":", "0", ",", "g", "i", "d", ":", "0", ",", "p", "i",
        "d", ":", "1", "]", " ", "g", "e", "t", "a", "t", "t", "r", " ", "(",
        "5", ")", ":", " ", "O", "K", " ", "<", "0", ".", "0", "0", "0", "1",
        "0", "0", ">", "\n">>,
      \* 2024.01.01 10:00:01.000000 [uid:0,gid:0,pid:1] read (a,4096,0,7): OK (4096) <0.001000>
      <<"2", "0", "2", "4", ".", "0", "1", ".", "0", "1", " ", "1", "0", ":",
        "0", "0", ":", "0", "1", ".", "0", "0", "0", "0", "0", "0", " ", "[",
        "u", "i", "d", ":", "0", ",", "g", "i", "d", ":", "0", ",", "p", "i",
        "d", ":", "1", "]", " ", "r", "e", "a", "d", " ", "(", "a", ",", "4",
        "0", "9", "6", ",", "0", ",", "7", ")", ":", " ", "O", "K", " ", "(",
        "4", "0", "9", "6", ")", " ", "<", "0", ".", "0", "0", "1", "0", "0",
        "0", ">", "\n">>,
      \* 2024.01.01 10:00:02.000000 [uid:0,gid:0,pid:1] read (5,4096,0,7): OK (4096) <0.001000>
      <<"2", "0", "2", "4", ".", "0", "1", ".", "0", "1", " ", "1", "0", ":",
        "0", "0", ":", "0", "2", ".", "0", "0", "0", "0", "0", "0", " ", "[",
        "u", "i", "d", ":", "0", ",", "g", "i", "d", ":", "0", ",", "p", "i",
        "d", ":", "1", "]", " ", "r", "e", "a", "d", " ", "(", "5", ",", "4",
        "0", "9", "6", ",", "0", ",", "7", ")", ":", " ", "O", "K", " ", "(",
        "4", "0", "9", "6", ")", " ", "<", "0", ".", "0", "0", "1", "0", "0",
        "0", ">", "\n">>,
      \* 2024.01.01 10:00:03.000000 [uid:0,gid:0,pid:1] read (5,4097,4096,7): OK (4097) <0.001000>
      <<"2", "0", "2", "4", ".", "0", "1", ".", "0", "1", " ", "1", "0", ":",
        "0", "0", ":", "0", "3", ".", "0", "0", "0", "0", "0", "0", " ", "[",
        "u", "i", "d", ":", "0", ",", "g", "i", "d", ":", "0", ",", "p", "i",
        "d", ":", "1", "]", " ", "r", "e", "a", "d", " ", "(", "5", ",", "4",
        "0", "9", "7", ",", "4", "0", "9", "6", ",", "7", ")", ":", " ", "O",
        "K", " ", "(", "4", "0", "9", "7", ")", " ", "<", "0", ".", "0", "0",
        "1", "0", "0", "0", ">", "\n">>,
      \* 2024.01.01 10:00:04.000000 [uid:0,gid:0,pid:1] read (5,131072,8193,7): OK (131072) <0.001000>
      <<"2", "0", "2", "4", ".", "0", "1", ".", "0", "1", " ", "1", "0", ":",
        "0", "0", ":", "0", "4", ".", "0", "0", "0", "0", "0", "0", " ", "[",
        "u", "i", "d", ":", "0", ",", "g", "i", "d", ":", "0", ",", "p", "i",
        "d", ":", "1", "]", " ", "r", "e", "a", "d", " ", "(", "5", ",", "1",
        "3", "1", "0", "7", "2", ",", "8", "1", "9", "3", ",", "7", ")", ":",
        " ", "O", "K", " ", "(", "1", "3", "1", "0", "7", "2", ")", " ", "<",
        "0", ".", "0", "0", "1", "0", "0", "0", ">", "\n">>,
      \* 2024.01.01 10:00:05.000000 [uid:0,gid:0,pid:1] read (5,131073,139265,7): OK (131073) <0.001000>
      <<"2", "0", "2", "4", ".", "0", "1", ".", "0", "1", " ", "1", "0", ":",
        "0", "0", ":", "0", "5", ".", "0", "0", "0", "0", "0", "0", " ", "[",
        "u", "i", "d", ":", "0", ",", "g", "i", "d", ":", "0", ",", "p", "i",
        "d", ":", "1", "]", " ", "r", "e", "a", "d", " ", "(", "5", ",", "1",
        "3", "1", "0", "7", "3", ",", "1", "3", "9", "2", "6", "5", ",", "7",
        ")", ":", " ", "O", "K", " ", "(", "1", "3", "1", "0", "7", "3", ")",
        " ", "<", "0", ".", "0", "0", "1", "0", "0", "0", ">", "\n">>,
      \* 2024.01.01 10:00:06.000000 [uid:0,gid:0,pid:1] write (6,8193,0,8): OK <0.002000>
      <<"2", "0", "2", "4", ".", "0", "1", ".", "0", "1", " ", "1", "0", ":",
        "0", "0", ":", "0", "6", ".", "0", "0", "0", "0", "0", "0", " ", "[",
        "u", "i", "d", ":", "0", ",", "g", "i", "d", ":", "0", ",", "p", "i",
        "d", ":", "1", "]", " ", "w", "r", "i", "t", "e", " ", "(", "6", ",",
        "8", "1", "9", "3", ",", "0", ",", "8", ")", ":", " ", "O", "K", " ",
        "<", "0", ".", "0", "0", "2", "0", "0", "0", ">", "\n">>,
      \* 2024.01.01 10:00:07.000000 [uid:0,gid:0,pid:1] write (6,65537,8193,8): OK <0.002000>
      <<"2", "0", "2", "4", ".", "0", "1", ".", "0", "1", " ", "1", "0", ":",
        "0", "0", ":", "0", "7", ".", "0", "0", "0", "0", "0", "0", " ", "[",
        "u", "i", "d", ":", "0", ",", "g", "i", "d", ":", "0", ",", "p", "i",
        "d", ":", "1", "]", " ", "w", "r", "i", "t", "e", " ", "(", "6", ",",
        "6", "5", "5", "3", "7", ",", "8", "1", "9", "3", ",", "8", ")", ":",
        " ", "O", "K", " ", "<", "0", ".", "0", "0", "2", "0", "0", "0", ">",
        "\n">>
    >>

LogLines == {LogLineList[i] : i \in 1..Len(LogLineList)}

\* parse_log_line on the lines of the model, computed once
ParsedLogLine == [l \in LogLines |-> parse_log_line(l)]

MaxLogLines == 3

LogFiles == UNION {[1..n -> LogLines] : n \in 0..MaxLogLines}

\* lines 257-262: the list is empty, the heading is printed, the file is open
InitLog ==
    /\ file \in LogFiles
    /\ lineno = 0
    /\ pc = "read"
    /\ operations = <<>>
    /\ output = <<Row("Analyzing log file")>>
    /\ error = "none"
    /\ access_analysis = NotCalled
    /\ baseline = NotCalled
    /\ io_analysis = NotCalled
    /\ read_sizes = <<>>
    /\ write_sizes = <<>>
    /\ read_size_buckets = <<>>
    /\ write_size_buckets = <<>>
    /\ ParseIdle /\ IoIdle

\* lines 263-266: one iteration of `for line in f`; a dict that parse_log_line
\* returns is never empty, so `if parsed` holds for every record
ReadLine ==
    /\ pc = "read"
    /\ lineno < Len(file)
    /\ lineno' = lineno + 1
    /\ line' = file[lineno + 1]
    /\ parsed' = ParsedLogLine[file[lineno + 1]]
    /\ IF parsed'.kind = "raise"
       THEN /\ pc' = "raised"
            /\ error' = parsed'.exc
            /\ UNCHANGED operations
       ELSE /\ operations' = IF parsed'.kind = "record"
                             THEN Append(operations, parsed'.rec)
                             ELSE operations
            /\ UNCHANGED <<pc, error>>
    /\ UNCHANGED <<access_analysis, baseline, io_analysis, read_sizes,
                   write_sizes, read_size_buckets, write_size_buckets, output,
                   file, ioVars>>

\* lines 268-270
NoValidOperations ==
    /\ pc = "read"
    /\ lineno = Len(file)
    /\ NoOperations(operations)
    /\ output' = Append(output, Row("No valid operations found in log file"))
    /\ pc' = "done"
    /\ UNCHANGED <<parseVars, accessVars, io_analysis, read_sizes, write_sizes,
                   read_size_buckets, write_size_buckets, error, file, lineno,
                   ioVars>>

\* lines 273-293
Aggregate ==
    /\ pc = "read"
    /\ lineno = Len(file)
    /\ ~NoOperations(operations)
    /\ read_sizes' = ReadSizes(operations)
    /\ write_sizes' = WriteSizes(operations)
    /\ pc' = "access"
    /\ UNCHANGED <<parseVars, accessVars, io_analysis, read_size_buckets,
                   write_size_buckets, output, error, file, lineno, ioVars>>

\* line 296
CallAccessPattern ==
    /\ pc = "access"
    /\ access_analysis' = analyze_access_pattern(operations)
    /\ pc' = "io"
    /\ UNCHANGED <<parseVars, operations, baseline, io_analysis, read_sizes,
                   write_sizes, read_size_buckets, write_size_buckets, output,
                   error, file, lineno, ioVars>>

\* line 299
CallIoBehavior ==
    /\ pc = "io"
    /\ io_analysis' = analyze_io_behavior(operations)
    /\ pc' = "summary"
    /\ UNCHANGED <<parseVars, accessVars, read_sizes, write_sizes,
                   read_size_buckets, write_size_buckets, output, error, file,
                   lineno, ioVars>>

\* lines 302-382
PrintSummary ==
    /\ pc = "summary"
    /\ output' = output \o SummaryRows(operations, read_sizes, write_sizes,
                                       io_analysis)
    /\ pc' = "behavior"
    /\ UNCHANGED <<parseVars, accessVars, io_analysis, read_sizes, write_sizes,
                   read_size_buckets, write_size_buckets, error, file, lineno,
                   ioVars>>

\* lines 384-402: access_analysis['backward_seeks'] raises KeyError when the
\* result has no such key
PrintBehavior ==
    /\ pc = "behavior"
    /\ IF "backward_seeks" \in DOMAIN access_analysis
       THEN /\ output' = output \o TransitionRows(access_analysis)
                                \o SeekRows(access_analysis)
                                \o HandleRows(io_analysis)
            /\ pc' = "distribution"
            /\ UNCHANGED error
       ELSE /\ output' = output \o TransitionRows(access_analysis)
            /\ pc' = "raised"
            /\ error' = "KeyError"
    /\ UNCHANGED <<parseVars, accessVars, io_analysis, read_sizes, write_sizes,
                   read_size_buckets, write_size_buckets, file, lineno, ioVars>>

\* lines 405-456
PrintSizeDistribution ==
    /\ pc = "distribution"
    /\ read_size_buckets' = BucketLoop(<<>>, read_sizes)
    /\ write_size_buckets' = BucketLoop(<<>>, write_sizes)
    /\ output' = output \o DistributionRows(read_sizes, write_sizes)
    /\ pc' = "done"
    /\ UNCHANGED <<parseVars, accessVars, io_analysis, read_sizes, write_sizes,
                   error, file, lineno, ioVars>>

NextLog ==
    \/ ReadLine
    \/ NoValidOperations
    \/ Aggregate
    \/ CallAccessPattern
    \/ CallIoBehavior
    \/ PrintSummary
    \/ PrintBehavior
    \/ PrintSizeDistribution

SpecLog == InitLog /\ [][NextLog]_vars

(***************************************************************************)
(* SpecStamp: records whose timestamps differ, parsed from lines and then  *)
(* analysed by analyze_io_behavior.  The lines are one read each; their    *)
(* timestamps have fractions of six digits and of fewer digits, a minute   *)
(* field of 99, three dates, and one timestamp without a fraction (which   *)
(* the pattern does not accept).                                           *)
(***************************************************************************)
StampLineList ==
    <<
      \* 2024.01.01 10:00:00.000000 [uid:0,gid:0,pid:1] read (5,4096,0,7): OK (4096) <0.001000>
      <<"2", "0", "2", "4", ".", "0", "1", ".", "0", "1", " ", "1", "0", ":",
        "0", "0", ":", "0", "0", ".", "0", "0", "0", "0", "0", "0", " ", "[",
        "u", "i", "d", ":", "0", ",", "g", "i", "d", ":", "0", ",", "p", "i",
        "d", ":", "1", "]", " ", "r", "e", "a", "d", " ", "(", "5", ",", "4",
        "0", "9", "6", ",", "0", ",", "7", ")", ":", " ", "O", "K", " ", "(",
        "4", "0", "9", "6", ")", " ", "<", "0", ".", "0", "0", "1", "0", "0",
        "0", ">">>,
      \* 2024.01.01 10:00:00.5 [uid:0,gid:0,pid:1] read (5,4096,0,7): OK (4096) <0.001000>
      <<"2", "0", "2", "4", ".", "0", "1", ".", "0", "1", " ", "1", "0", ":",
        "0", "0", ":", "0", "0", ".", "5", " ", "[", "u", "i", "d", ":", "0",
        ",", "g", "i", "d", ":", "0", ",", "p", "i", "d", ":", "1", "]", " ",
        "r", "e", "a", "d", " ", "(", "5", ",", "4", "0", "9", "6", ",", "0",
        ",", "7", ")", ":", " ", "O", "K", " ", "(", "4", "0", "9", "6", ")",
        " ", "<", "0", ".", "0", "0", "1", "0", "0", "0", ">">>,
      \* 2024.01.01 10:00:00.10 [uid:0,gid:0,pid:1] read (5,4096,0,7): OK (4096) <0.001000>
      <<"2", "0", "2", "4", ".", "0", "1", ".", "0", "1", " ", "1", "0", ":",
        "0", "0", ":", "0", "0", ".", "1", "0", " ", "[", "u", "i", "d", ":",
        "0", ",", "g", "i", "d", ":", "0", ",", "p", "i", "d", ":", "1", "]",
        " ", "r", "e", "a", "d", " ", "(", "5", ",", "4", "0", "9", "6", ",",
        "0", ",", "7", ")", ":", " ", "O", "K", " ", "(", "4", "0", "9", "6",
        ")", " ", "<", "0", ".", "0", "0", "1", "0", "0", "0", ">">>,
      \* 2024.01.01 10:00:00.500000 [uid:0,gid:0,pid:1] read (5,4096,0,7): OK (4096) <0.001000>
      <<"2", "0", "2", "4", ".", "0", "1", ".", "0", "1", " ", "1", "0", ":",
        "0", "0", ":", "0", "0", ".", "5", "0", "0", "0", "0", "0", " ", "[",
        "u", "i", "d", ":", "0", ",", "g", "i", "d", ":", "0", ",", "p", "i",
        "d", ":", "1", "]", " ", "r", "e", "a", "d", " ", "(", "5", ",", "4",
        "0", "9", "6", ",", "0", ",", "7", ")", ":", " ", "O", "K", " ", "(",
        "4", "0", "9", "6", ")", " ", "<", "0", ".", "0", "0", "1", "0", "0",
        "0", ">">>,
      \* 2024.01.01 10:00:01.000000 [uid:0,gid:0,pid:1] read (5,4096,0,7): OK (4096) <0.001000>
      <<"2", "0", "2", "4", ".", "0", "1", ".", "0", "1", " ", "1", "0", ":",
        "0", "0", ":", "0", "1", ".", "0", "0", "0", "0", "0", "0", " ", "[",
        "u", "i", "d", ":", "0", ",", "g", "i", "d", ":", "0", ",", "p", "i",
        "d", ":", "1", "]", " ", "r", "e", "a", "d", " ", "(", "5", ",", "4",
        "0", "9", "6", ",", "0", ",", "7", ")", ":", " ", "O", "K", " ", "(",
        "4", "0", "9", "6", ")", " ", "<", "0", ".", "0", "0", "1", "0", "0",
        "0", ">">>,
      \* 2024.01.01 09:59:59.999999 [uid:0,gid:0,pid:1] read (5,4096,0,7): OK (4096) <0.001000>
      <<"2", "0", "2", "4", ".", "0", "1", ".", "0", "1", " ", "0", "9", ":",
        "5", "9", ":", "5", "9", ".", "9", "9", "9", "9", "9", "9", " ", "[",
        "u", "i", "d", ":", "0", ",", "g", "i", "d", ":", "0", ",", "p", "i",
        "d", ":", "1", "]", " ", "r", "e", "a", "d", " ", "(", "5", ",", "4",
        "0", "9", "6", ",", "0", ",", "7", ")", ":", " ", "O", "K", " ", "(",
        "4", "0", "9", "6", ")", " ", "<", "0", ".", "0", "0", "1", "0", "0",
        "0", ">">>,
      \* 2024.01.01 00:99:00.000000 [uid:0,gid:0,pid:1] read (5,4096,0,7): OK (4096) <0.001000>
      <<"2", "0", "2", "4", ".", "0", "1", ".", "0", "1", " ", "0", "0", ":",
        "9", "9", ":", "0", "0", ".", "0", "0", "0", "0", "0", "0", " ", "[",
        "u", "i", "d", ":", "0", ",", "g", "i", "d", ":", "0", ",", "p", "i",
        "d", ":", "1", "]", " ", "r", "e", "a", "d", " ", "(", "5", ",", "4",
        "0", "9", "6", ",", "0", ",", "7", ")", ":", " ", "O", "K", " ", "(",
        "4", "0", "9", "6", ")", " ", "<", "0", ".", "0", "0", "1", "0", "0",
        "0", ">">>,
      \* 2024.01.01 01:00:00.000000 [uid:0,gid:0,pid:1] read (5,4096,0,7): OK (4096) <0.001000>
      <<"2", "0", "2", "4", ".", "0", "1", ".", "0", "1", " ", "0", "1", ":",
        "0", "0", ":", "0", "0", ".", "0", "0", "0", "0", "0", "0", " ", "[",
        "u", "i", "d", ":", "0", ",", "g", "i", "d", ":", "0", ",", "p", "i",
        "d", ":", "1", "]", " ", "r", "e", "a", "d", " ", "(", "5", ",", "4",
        "0", "9", "6", ",", "0", ",", "7", ")", ":", " ", "O", "K", " ", "(",
        "4", "0", "9", "6", ")", " ", "<", "0", ".", "0", "0", "1", "0", "0",
        "0", ">">>,
      \* 2023.12.31 23:59:59.000000 [uid:0,gid:0,pid:1] read (5,4096,0,7): OK (4096) <0.001000>
      <<"2", "0", "2", "3", ".", "1", "2", ".", "3", "1", " ", "2", "3", ":",
        "5", "9", ":", "5", "9", ".", "0", "0", "0", "0", "0", "0", " ", "[",
        "u", "i", "d", ":", "0", ",", "g", "i", "d", ":", "0", ",", "p", "i",
        "d", ":", "1", "]", " ", "r", "e", "a", "d", " ", "(", "5", ",", "4",
        "0", "9", "6", ",", "0", ",", "7", ")", ":", " ", "O", "K", " ", "(",
        "4", "0", "9", "6", ")", " ", "<", "0", ".", "0", "0", "1", "0", "0",
        "0", ">">>,
      \* 2024.01.02 00:00:00.000000 [uid:0,gid:0,pid:1] read (5,4096,0,7): OK (4096) <0.001000>
      <<"2", "0", "2", "4", ".", "0", "1", ".", "0", "2", " ", "0", "0", ":",
        "0", "0", ":", "0", "0", ".", "0", "0", "0", "0", "0", "0", " ", "[",
        "u", "i", "d", ":", "0", ",", "g", "i", "d", ":", "0", ",", "p", "i",
        "d", ":", "1", "]", " ", "r", "e", "a", "d", " ", "(", "5", ",", "4",
        "0", "9", "6", ",", "0", ",", "7", ")", ":", " ", "O", "K", " ", "(",
        "4", "0", "9", "6", ")", " ", "<", "0", ".", "0", "0", "1", "0", "0",
        "0", ">">>,
      \* 2024.01.01 10:00:00 [uid:0,gid:0,pid:1] read (5,4096,0,7): OK (4096) <0.001000>
      <<"2", "0", "2", "4", ".", "0", "1", ".", "0", "1", " ", "1", "0", ":",
        "0", "0", ":", "0", "0", " ", "[", "u", "i", "d", ":", "0", ",", "g",
        "i", "d", ":", "0", ",", "p", "i", "d", ":", "1", "]", " ", "r", "e",
        "a", "d", " ", "(", "5", ",", "4", "0", "9", "6", ",", "0", ",", "7",
        ")", ":", " ", "O", "K", " ", "(", "4", "0", "9", "6", ")", " ", "<",
        "0", ".", "0", "0", "1", "0", "0", "0", ">">>
    >>

StampLines == {StampLineList[i] : i \in 1..Len(StampLineList)}

\* parse_log_line on the lines of the model, computed once
ParsedStampLine == [l \in StampLines |-> parse_log_line(l)]

MaxStampOps == 2

InitStamp ==
    /\ operations = <<>>
    /\ io_analysis = NotCalled
    /\ pc = "stamp_read"
    /\ access_analysis = NotCalled
    /\ baseline = NotCalled
    /\ read_sizes = <<>>
    /\ write_sizes = <<>>
    /\ read_size_buckets = <<>>
    /\ write_size_buckets = <<>>
    /\ output = <<>>
    /\ error = "none"
    /\ file = <<>>
    /\ lineno = 0
    /\ ParseIdle /\ IoIdle

\* analyze_log, lines 264-266: a line is parsed and its record kept
ParseStamped ==
    /\ pc = "stamp_read"
    /\ Len(operations) < MaxStampOps
    /\ \E l \in StampLines :
           /\ line' = l
           /\ parsed' = ParsedStampLine[l]
    /\ operations' = IF parsed'.kind = "record"
                     THEN Append(operations, parsed'.rec)
                     ELSE operations
    /\ UNCHANGED <<access_analysis, baseline, logVars, ioVars>>

\* analyze_log, line 299
AnalyzeStamped ==
    /\ pc = "stamp_read"
    /\ operations # <<>>
    /\ io_analysis' = analyze_io_behavior(operations)
    /\ pc' = "stamp_done"
    /\ UNCHANGED <<parseVars, accessVars, ioVars, read_sizes, write_sizes,
                   read_size_buckets, write_size_buckets, output, error,
                   file, lineno>>

NextStamp == ParseStamped \/ AnalyzeStamped

SpecStamp == InitStamp /\ [][NextStamp]_vars

(***************************************************************************)
(* SpecPasses: the aggregation loop of analyze_log, analyze_access_pattern *)
(* and analyze_io_behavior on one list of records, in any order, the loop  *)
(* one record at a time.  A pass is given the list of its caller and       *)
(* builds lists of its own; what it sorts is one of these lists.           *)
(***************************************************************************)
\* A variant of line 191 that sorts the list the pass was given.
SortCallerList(lists) ==
    [lists EXCEPT !.operations = SortByTimestamp(lists.operations)]

\* analyze_access_pattern, lines 165-178: io_ops is a new list (a list
\* comprehension) and every by_inode[k] is a new list filled by append.
AccessLists(ops) ==
    LET keys == InodeKeys(IoOps(ops), {})
    IN  [operations |-> ops,
         io_ops |-> IoOps(ops),
         by_inode |-> [i \in 1..Len(keys) |-> GroupOf(IoOps(ops), keys[i])]]

\* lines 186-191: ops.sort() on every group of at least two records
SortGroups(lists) ==
    [lists EXCEPT !.by_inode =
        [i \in 1..Len(lists.by_inode) |->
            IF Len(lists.by_inode[i]) < 2 THEN lists.by_inode[i]
            ELSE SortByTimestamp(lists.by_inode[i])]]

\* lines 133 and 141: operation_timestamps.sort()
RECURSIVE SortTimes(_)
SortTimes(q) ==
    IF q = <<>> THEN <<>>
    ELSE LET Before(t) == TimeLess(t, Head(q))
             NotBefore(t) == ~TimeLess(t, Head(q))
         IN  SelectSeq(SortTimes(Tail(q)), Before) \o <<Head(q)>>
                 \o SelectSeq(SortTimes(Tail(q)), NotBefore)

\* analyze_io_behavior, lines 97-141: raw_timestamps and operation_timestamps
\* are new lists filled by append; the second is sorted when it has more than
\* one element.
IoLists(ops) ==
    [operations |-> ops,
     raw_timestamps |-> [i \in 1..Len(ops) |-> ops[i].timestamp],
     operation_timestamps |->
         IF Len(ops) > 1
         THEN SortTimes([i \in 1..Len(ops) |-> TotalSeconds(ops[i].timestamp)])
         ELSE [i \in 1..Len(ops) |-> TotalSeconds(ops[i].timestamp)]]

MaxPassOps == 3

InitPasses ==
    /\ \E n \in 1..MaxPassOps : operations \in [1..n -> AccessRecords]
    /\ baseline = operations
    /\ access_analysis = NotCalled
    /\ io_analysis = NotCalled
    /\ pc = "passes"
    /\ read_sizes = <<>>
    /\ write_sizes = <<>>
    /\ read_size_buckets = <<>>
    /\ write_size_buckets = <<>>
    /\ output = <<>>
    /\ error = "none"
    /\ file = <<>>
    /\ lineno = 0
    /\ ParseIdle /\ IoIdle

\* lines 281-289: one turn of the loop, for the record after the lineno
\* records already taken
AggregateStep ==
    /\ pc = "passes"
    /\ lineno < Len(operations)
    /\ read_sizes' = IF IsSizedRead(operations[lineno + 1])
                     THEN Append(read_sizes, operations[lineno + 1].size)
                     ELSE read_sizes
    /\ write_sizes' = IF ~IsSizedRead(operations[lineno + 1])
                         /\ IsSizedWrite(operations[lineno + 1])
                      THEN Append(write_sizes, operations[lineno + 1].size)
                      ELSE write_sizes
    /\ lineno' = lineno + 1
    /\ UNCHANGED <<parseVars, accessVars, io_analysis, pc, read_size_buckets,
                   write_size_buckets, output, error, file, ioVars>>

\* line 296: the call and what it leaves in the list it was given
AccessPass ==
    /\ pc = "passes"
    /\ access_analysis = NotCalled
    /\ access_analysis' = analyze_access_pattern(operations)
    /\ operations' = SortGroups(AccessLists(operations)).operations
    /\ UNCHANGED <<parseVars, baseline, logVars, ioVars>>

\* line 299: the call and what it leaves in the list it was given
IoPass ==
    /\ pc = "passes"
    /\ io_analysis = NotCalled
    /\ io_analysis' = analyze_io_behavior(operations)
    /\ operations' = IoLists(operations).operations
    /\ UNCHANGED <<parseVars, access_analysis, baseline, pc, read_sizes,
                   write_sizes, read_size_buckets, write_size_buckets, output,
                   error, file, lineno, ioVars>>

NextPasses == AggregateStep \/ AccessPass \/ IoPass

SpecPasses == InitPasses /\ [][NextPasses]_vars

(***************************************************************************)
(* Claims about parse_log_line (SpecParse).                                *)
(***************************************************************************)

\* C2: parse_log_line is total: on every line it returns a record or None and
\* never raises, also when an operation's arguments or the duration token are
\* not numbers.
C2_ParseIsTotal ==
    parsed # NotCalled => parsed.kind \in {"record", "None"}

\* The grammar as C5 states it: only trailing whitespace is trimmed, the
\* timestamp starts at the first character, the duration marker ends the line.
ExactMatch(l) ==
    LET s == RStrip(l)
        m == Match(s)
    IN  m.matched /\ \E k \in 1..Len(s) : k >= m.end - Len(m.duration) - 3
                                         /\ DurationEnd(s, k) = Len(s) + 1

\* The text between "OK" and the marker that ends the line.
DebugBeforeTrailingMarker(l) ==
    LET s == RStrip(l)
        m == Match(s)
        debug_start == m.end - Len(m.duration) - 3 - Len(m.result_debug)
        k == CHOOSE k \in 1..Len(s) : DurationEnd(s, k) = Len(s) + 1
    IN  SubSeq(s, debug_start, k - 1)

\* C5: parse_log_line yields a record only for a line that matches the grammar
\* exactly (timestamp at the first character, duration marker last on the line),
\* and result_debug is the text between OK and that trailing marker.
C5_RecordOnlyForExactGrammar ==
    (parsed # NotCalled /\ parsed.kind = "record") =>
        /\ ExactMatch(line)
        /\ parsed.rec.result_debug = strip(DebugBeforeTrailingMarker(line))

(***************************************************************************)
(* Claims about analyze_access_pattern (SpecAccess).                       *)
(***************************************************************************)

\* C1: analyze_access_pattern gives the same result for every reordering of
\* its input, also when two records of one inode carry the same timestamp.
C1_ReorderingKeepsResult ==
    baseline # NotCalled => access_analysis = baseline

\* x is within two units in the last place of 100.
NearHundred(x) ==
    LET h == FromInt(100) IN
    /\ x # FZero
    /\ x.e = h.e
    /\ \E k \in 0..2 :
           \/ StripZeros(AddBits(x.m, BitsOfNat(k))) = h.m
           \/ StripZeros(AddBits(h.m, BitsOfNat(k))) = x.m

\* The number of consecutive pairs of the per-inode lists: every read/write
\* record but the first of its inode.
PairCount(ops) ==
    LET io == IoOps(ops)
    IN  Len(io) - Cardinality({io[i].inode : i \in 1..Len(io)})

\* C6 as stated: with transitions the two percentages sum to exactly 100,
\* without transitions both are 0.
C6_PercentagesSumTo100 ==
    access_analysis # NotCalled =>
        IF access_analysis.total_transitions > 0
        THEN FAdd(access_analysis.sequential_percentage,
                  access_analysis.random_percentage) = FromInt(100)
        ELSE /\ access_analysis.sequential_percentage = FZero
             /\ access_analysis.random_percentage = FZero

\* C6 as amended: every transition is counted in exactly one of sequential_count
\* and random_count, so the counts sum to total_transitions; with transitions
\* the two percentages sum to 100 up to the rounding of the three float
\* operations (within two units in the last place), without transitions both
\* are 0.
C6_PercentagesSumNear100 ==
    access_analysis # NotCalled =>
        /\ access_analysis.total_transitions = PairCount(operations)
        /\ Counters(operations).sequential_count
               + Counters(operations).random_count = PairCount(operations)
        /\ IF access_analysis.total_transitions > 0
           THEN NearHundred(FAdd(access_analysis.sequential_percentage,
                                 access_analysis.random_percentage))
           ELSE /\ access_analysis.sequential_percentage = FZero
                /\ access_analysis.random_percentage = FZero

\* C6 witness: three transitions, one of them sequential, and a sum that is
\* not 100.
C6_Witness ==
    /\ access_analysis # NotCalled
    /\ access_analysis.total_transitions = 3
    /\ Counters(operations).sequential_count = 1
    /\ FAdd(access_analysis.sequential_percentage,
            access_analysis.random_percentage) # FromInt(100)

\* The consecutive pairs <<group, index of curr>> of the sorted per-inode lists.
Pairs(groups) ==
    {p \in (1..Len(groups)) \X (2..MaxAccessOps + 1) : p[2] <= Len(groups[p[1]])}

\* C10: a consecutive pair (prev, curr) of one inode in timestamp order counts
\* as sequential iff |curr.offset - (prev.offset + prev.size)| <= prev.size and
\* as random otherwise; a random pair is a backward seek iff curr.offset <
\* prev.offset and a forward seek otherwise; sequential pairs add to neither
\* seek counter.  The reads (0,4096), (4096,4096), (1000000,100) of one inode
\* give one sequential and one random forward transition.
C10_TransitionClassification ==
    (access_analysis # NotCalled /\ "backward_seeks" \in DOMAIN access_analysis) =>
        LET groups == SortedGroups(IoOps(operations))
            prev(p) == groups[p[1]][p[2] - 1]
            curr(p) == groups[p[1]][p[2]]
            sequential == {p \in Pairs(groups) :
                Abs(curr(p).offset - (prev(p).offset + prev(p).size))
                    <= prev(p).size}
            random == Pairs(groups) \ sequential
            backward == {p \in random : curr(p).offset < prev(p).offset}
        IN  /\ access_analysis.total_transitions = Cardinality(Pairs(groups))
            /\ access_analysis.sequential_percentage
                   = Percentage(Cardinality(sequential), Cardinality(Pairs(groups)))
            /\ access_analysis.random_percentage
                   = Percentage(Cardinality(random), Cardinality(Pairs(groups)))
            /\ access_analysis.backward_seeks = Cardinality(backward)
            /\ access_analysis.forward_seeks = Cardinality(random \ backward)
            /\ access_analysis.backward_seeks + access_analysis.forward_seeks
                   = Cardinality(random)

\* C10 witness: the three reads of the example, analysed: two transitions, one
\* sequential (50%), one random and forward.
C10_Witness ==
    /\ operations = SubSeq(AccessRecordList, 1, 3)
    /\ access_analysis # NotCalled
    /\ access_analysis.total_transitions = 2
    /\ access_analysis.sequential_percentage = FromInt(50)
    /\ access_analysis.forward_seeks = 1
    /\ access_analysis.backward_seeks = 0

(***************************************************************************)
(* Claims about analyze_io_behavior (SpecIo).                              *)
(***************************************************************************)

\* The records seen that carry a handle that is not None.
WithHandle == {op \in DOMAIN processed : "handle" \in DOMAIN op /\ op.handle # None}

\* C8: every record whose handle is not null counts once for its handle value,
\* the integer handle 0 included: unique_handles is the number of distinct
\* non-null handle values and the per-handle counts sum to the number of
\* records with a non-null handle.
C8_EveryHandleCounted ==
    pc = "io_done" =>
        /\ io_analysis.unique_handles = Cardinality({op.handle : op \in WithHandle})
        /\ SumValues(handle_usage, DOMAIN handle_usage)
               = SumValues(processed, WithHandle)

\* The records seen that carry an inode that is not None.
WithInode == {op \in DOMAIN processed : "inode" \in DOMAIN op /\ op.inode # None}

\* C9: high_activity_files is the number of distinct inodes that appear in more
\* than 100 records, for every inode value the parser can produce.
C9_HighActivityCount ==
    pc = "io_done" =>
        io_analysis.high_activity_files =
            Cardinality({k \in {op.inode : op \in WithInode} :
                SumValues(processed, {op \in WithInode : op.inode = k})
                    > HighActivityThreshold})

(***************************************************************************)
(* Claims about analyze_log (SpecLog).                                     *)
(***************************************************************************)

\* No line of the file makes parse_log_line raise.
EveryLineParses ==
    \A i \in 1..Len(file) : ParsedLogLine[file[i]].kind # "raise"

\* The rows of the seek statistics are in the output.
SeekStatisticsPrinted ==
    \A label \in {"Total Transitions", "Backward Seeks", "Forward Seeks"} :
        \E i \in 1..Len(output) : output[i].row = label

\* C3: a log whose lines yield at least one record is analysed to the end and
\* the whole summary is printed, seek statistics included, also when the
\* classifier returns the insufficient_data or the unknown result; no run
\* fails for another reason than an I/O error.
C3_RunsToCompletion ==
    (operations # <<>> /\ EveryLineParses) =>
        /\ pc # "raised"
        /\ pc = "done" => SeekStatisticsPrinted

\* No line of the file matches the pattern.
NoLineMatches ==
    \A i \in 1..Len(file) : ParsedLogLine[file[i]] = ReturnNone

\* C4: when no line parses to a record (an empty file, or lines that do not
\* match), analyze_log prints the "no valid operations" message and returns:
\* neither analysis is called, no statistic is computed or printed, no error
\* is raised.
C4_NoValidOperations ==
    NoLineMatches =>
        /\ pc \in {"read", "done"}
        /\ error = "none"
        /\ access_analysis = NotCalled
        /\ io_analysis = NotCalled
        /\ read_sizes = <<>> /\ write_sizes = <<>>
        /\ pc = "done" =>
               output = <<Row("Analyzing log file"),
                          Row("No valid operations found in log file")>>

\* C4 witness: a file of lines that do not match, read to its end.
C4_Witness ==
    /\ file # <<>>
    /\ NoLineMatches
    /\ lineno = Len(file)
    /\ pc = "done"

\* The bucket of the report a size belongs to, by the bounds of the claim.
InRange(size, label) ==
    CASE label = "<=4KB" -> size <= 4096
      [] label = "<=8KB" -> 4096 < size /\ size <= 8192
      [] label = "<=32KB" -> 8192 < size /\ size <= 32768
      [] label = "<=64KB" -> 32768 < size /\ size <= 65536
      [] label = "<=128KB" -> 65536 < size /\ size <= 131072
      [] label = ">128KB" -> 131072 < size

CountInRange(sizes, label) ==
    Cardinality({i \in 1..Len(sizes) : InRange(sizes[i], label)})

\* The bucket rows printed for the read sizes or for the write sizes.
ReportedBuckets(kind) ==
    LET OfKind(r) == "sizes" \in DOMAIN r /\ r.sizes = kind
    IN  SelectSeq(output, OfKind)

RowCounts(rows) == [i \in 1..Len(rows) |-> rows[i].n]

HistogramOf(rows, sizes) ==
    /\ SumSeq(RowCounts(rows)) = Len(sizes)
    /\ \A i \in 1..Len(rows) : rows[i].n = CountInRange(sizes, rows[i].row)
    /\ \A i \in 1..Len(sizes) :
           \E k \in 1..Len(rows) : InRange(sizes[i], rows[k].row)
    /\ \A i, k \in 1..Len(rows) :
           i < k => LabelIndex(rows[i].row) < LabelIndex(rows[k].row)

\* C7: every read size (and every write size) is counted in exactly one of the
\* six buckets with upper bounds 4096, 8192, 32768, 65536, 131072 and none, so
\* the counts sum to the number of sizes; the buckets are reported in the order
\* <=4KB, <=8KB, <=32KB, <=64KB, <=128KB, >128KB whatever the order of the sizes.
C7_SizeBuckets ==
    (pc = "done" /\ operations # <<>>) =>
        /\ HistogramOf(ReportedBuckets("read"), read_sizes)
        /\ HistogramOf(ReportedBuckets("write"), write_sizes)

\* C7 witness: two reads, the larger size seen first, one size on a bucket
\* bound, and a write: the report lists the smaller bucket first.
C7_Witness ==
    /\ pc = "done"
    /\ read_sizes = <<131073, 4096>>
    /\ write_sizes = <<8193>>
    /\ ReportedBuckets("read")
           = <<[row |-> "<=4KB", n |-> 1, sizes |-> "read"],
               [row |-> ">128KB", n |-> 1, sizes |-> "read"]>>

(***************************************************************************)
(* Claims about the order of timestamps (SpecStamp).                       *)
(***************************************************************************)

\* The date of a timestamp as one number (the pattern gives it ten characters).
DateOf(ts) ==
    IntValue(SubSeq(ts, 1, 4)) * 10000 + IntValue(SubSeq(ts, 6, 7)) * 100
        + IntValue(SubSeq(ts, 9, 10))

\* The whole seconds of the time of day, and the digits after the dot.
WholeSeconds(ts) ==
    IntValue(SubSeq(ts, 12, 13)) * 3600 + IntValue(SubSeq(ts, 15, 16)) * 60
        + IntValue(SubSeq(ts, 18, 19))

FractionDigits(ts) == SubSeq(ts, 21, Len(ts))

\* a run of digits followed by zeros up to n digits
RECURSIVE ZeroFilled(_, _)
ZeroFilled(f, n) == IF Len(f) >= n THEN f ELSE ZeroFilled(Append(f, "0"), n)

\* 0.f < 0.g for two runs of digits read as decimal fractions: with both
\* filled to one width, the first differing digit decides
FractionLess(f, g) ==
    LET n == IF Len(f) < Len(g) THEN Len(g) ELSE Len(f)
    IN  StrLess(ZeroFilled(f, n), ZeroFilled(g, n))

\* a is an earlier moment than b
Earlier(a, b) ==
    \/ DateOf(a) < DateOf(b)
    \/ /\ DateOf(a) = DateOf(b)
       /\ \/ WholeSeconds(a) < WholeSeconds(b)
          \/ /\ WholeSeconds(a) = WholeSeconds(b)
             /\ FractionLess(FractionDigits(a), FractionDigits(b))

\* C11: for two records parse_log_line accepts, the order of the timestamp
\* strings is their chronological order and, for records of one date, the
\* order of the within-day seconds analyze_io_behavior derives from them.
C11_StringOrderIsTimeOrder ==
    \A i, j \in 1..Len(operations) :
        LET a == operations[i].timestamp
            b == operations[j].timestamp
        IN  /\ StrLess(a, b) <=> Earlier(a, b)
            /\ DateOf(a) = DateOf(b) =>
                   (StrLess(a, b) <=> TimeLess(TotalSeconds(a), TotalSeconds(b)))

(***************************************************************************)
(* Claims about the passes and their input (SpecPasses).                   *)
(***************************************************************************)

\* The groups of at least two records that the classifier analyses, taken from
\* its own lists.
AnalysedGroups(lists) ==
    LET NotSingleton(g) == Len(g) >= 2 IN SelectSeq(lists.by_inode, NotSingleton)

\* C12: analyze_access_pattern and analyze_io_behavior leave the list they are
\* given as it was (same records, same order, same fields), so the two passes
\* and the aggregation loop, in any order or interleaved, give the results of
\* the order analyze_log uses: loop, classifier, analyzer on the first list.
C12_PassesLeaveInput ==
    pc = "passes" =>
        /\ operations = baseline
        /\ access_analysis # NotCalled =>
               /\ access_analysis = analyze_access_pattern(baseline)
               /\ AnalysedGroups(SortGroups(AccessLists(baseline)))
                      = SortedGroups(IoOps(baseline))
        /\ io_analysis # NotCalled => io_analysis = analyze_io_behavior(baseline)
        /\ lineno = Len(baseline) =>
               /\ read_sizes = ReadSizes(baseline)
               /\ write_sizes = WriteSizes(baseline)

\* Both passes and the whole loop have run on a list in which the classifier's
\* sort moved a record and the analyzer's sort moved a time.
C12_Witness ==
    /\ pc = "passes"
    /\ access_analysis # NotCalled
    /\ io_analysis # NotCalled
    /\ lineno = Len(operations)
    /\ SortGroups(AccessLists(operations)).by_inode # AccessLists(operations).by_inode
    /\ IoLists(operations).operation_timestamps
           # [i \in 1..Len(operations) |-> TotalSeconds(operations[i].timestamp)]
    /\ read_sizes # <<>>
    /\ write_sizes # <<>>

=============================================================================
